---- MODULE Spec2Model ----
(***************************************************************************)
(* A model of src/src/reststate-vuex.js (first module of the file, lines   *)
(* 1-507): the per-resource Vuex module built by resourceModule(), its     *)
(* mutations, actions and getters, with the transport (ResourceClient) as  *)
(* an environment that answers each request with a response or an error.   *)
(*                                                                         *)
(* Encoding of JavaScript values                                           *)
(*   object            a function from its keys (strings) to its values;   *)
(*                     a key the object lacks is not in its DOMAIN         *)
(*   null, undefined   JNull, JUndef                                       *)
(*   a value that may be null, an object, a string or an array is tagged:  *)
(*                     JNull, JObj(o), JStr(s), JArr(seq)                  *)
(*   a reference to the object held in state.records under an id (the     *)
(*   same object, not a copy): JRef(id)                                    *)
(*   the number n      the string "#n" (ids only), see ToStr               *)
(***************************************************************************)
EXTENDS Integers, Sequences, FiniteSets, TLC

JNull == [tag |-> "null"]
JUndef == [tag |-> "undefined"]
JObj(o) == [tag |-> "obj", val |-> o]
JStr(s) == [tag |-> "str", val |-> s]
JArr(a) == [tag |-> "arr", val |-> a]
JRef(id) == [tag |-> "ref", id |-> id]

\* {} : the object with no key
EmptyObject == <<>>

IsArray(x) == x.tag = "arr"
\* !x for the values a relationship's data or a response member can take
Falsy(x) == x.tag \in {"null", "undefined"}
\* o[k], which is undefined when o has no key k
Get(o, k) == IF k \in DOMAIN o THEN o[k] ELSE JUndef

STATUS_INITIAL == "INITIAL"
STATUS_LOADING == "LOADING"
STATUS_ERROR == "ERROR"
STATUS_SUCCESS == "SUCCESS"

\* The resource names the store is built for (mapResourceModules' names).
Names == {"widgets", "users"}

\* Object.keys(record.relationships): the documents of this model list their
\* relationships in this order.
RelOrder == <<"owner", "widgets", "purchased">>

-----------------------------------------------------------------------------
(* Helpers on sequences *)

Range(s) == {s[i] : i \in DOMAIN s}

\* array.find(P): the index of the first element of s in the set hit, 0 if none
FirstIn(s, hit) ==
  IF \E i \in DOMAIN s : s[i] \in hit
  THEN CHOOSE i \in DOMAIN s : s[i] \in hit /\ \A j \in 1..(i-1) : s[j] \notin hit
  ELSE 0

RECURSIVE MapIds(_)
\* records.map(record => record.id)
MapIds(s) == IF s = <<>> THEN <<>> ELSE <<Head(s).id>> \o MapIds(Tail(s))

-----------------------------------------------------------------------------
(* Identity and matching utilities *)

\* The string a number id prints as; a string id is itself.
NumberIds == {"#1", "#2"}
ToStr(x) == IF x = "#1" THEN "1" ELSE IF x = "#2" THEN "2" ELSE x
\* a == b on ids (a string against a number compares the number's string)
LooseEq(a, b) == ToStr(a) = ToStr(b)

\* deepEquals(a, b): structural equality
deepEquals(a, b) == a = b

\* Object.assign(target, source): source's top-level keys overwrite target's
ObjectAssign(target, source) ==
  [k \in DOMAIN target \cup DOMAIN source |->
     IF k \in DOMAIN source THEN source[k] ELSE target[k]]

getResourceIdentifier(resource) ==
  IF Falsy(resource) THEN resource
  ELSE JObj([type |-> resource.val.type, id |-> resource.val.id])

getRelationshipType(relationship) ==
  LET d == Get(relationship, "data")
      data == IF IsArray(d)
              THEN (IF Len(d.val) > 0 THEN JObj(d.val[1]) ELSE JUndef)
              ELSE d
  IN IF Falsy(data) THEN data ELSE JStr(data.val.type)

\* matches(criteria)(test): every key of criteria has a deep-equal value in test
matches(criteria, test) ==
  \A key \in DOMAIN criteria :
     key \in DOMAIN test /\ deepEquals(criteria[key], test[key])

\* mutant: the new record takes the old one's place, nothing of the old is kept
Mut_storeRecord(records, newRecord) ==
  LET hit == {r \in Range(records) : r.id = newRecord.id}
      i == FirstIn(records, hit)
  IN IF i # 0
     THEN [records EXCEPT ![i] = newRecord]
     ELSE Append(records, newRecord)

\* storeRecord(records)(newRecord)
storeRecord(records, newRecord) ==
  LET hit == {r \in Range(records) : r.id = newRecord.id}
      i == FirstIn(records, hit)
  IN IF i # 0
     THEN [records EXCEPT ![i] = ObjectAssign(records[i], newRecord)]
     ELSE Append(records, newRecord)

RECURSIVE storeRecords(_, _)
\* newRecords.forEach(storeRecord(records))
storeRecords(records, newRecords) ==
  IF newRecords = <<>> THEN records
  ELSE storeRecords(storeRecord(records, Head(newRecords)), Tail(newRecords))

-----------------------------------------------------------------------------
(* The state of one resource module and its mutations *)

initialState ==
  [records |-> <<>>, related |-> <<>>, filtered |-> <<>>, page |-> <<>>,
   error |-> JNull, status |-> STATUS_INITIAL, links |-> EmptyObject,
   lastCreated |-> JNull, lastMeta |-> JNull]

\* mutant: an omitted relationship defaults to the parent's type
Mut_getRelationshipIndexDefault(resourceName, params) ==
  [parent |-> getResourceIdentifier(Get(params, "parent")),
   relationship |-> IF "relationship" \in DOMAIN params
                    THEN params.relationship ELSE params.parent.val.type]

\* mutant: the parent is kept as given, not reduced to its identifier
Mut_getRelationshipIndex(resourceName, params) ==
  [parent |-> Get(params, "parent"),
   relationship |-> IF "relationship" \in DOMAIN params
                    THEN params.relationship ELSE resourceName]

\* params: an object with keys among parent, relationship, options
getRelationshipIndex(resourceName, params) ==
  [parent |-> getResourceIdentifier(Get(params, "parent")),
   relationship |-> IF "relationship" \in DOMAIN params
                    THEN params.relationship ELSE resourceName]

\* state.lastCreated when the object it shares with state.records leaves the
\* array: the object as it is at that moment, no longer written by upserts
Detached(s) ==
  IF s.lastCreated.tag = "ref"
  THEN LET hit == {r \in Range(s.records) : r.id = s.lastCreated.id}
           i == FirstIn(s.records, hit)
       IN [s EXCEPT !.lastCreated = IF i # 0 THEN JObj(s.records[i]) ELSE JUndef]
  ELSE s

\* mutant: the first response to fill the store wins
Mut_REPLACE_IF_EMPTY(s, records) ==
  IF s.records = <<>> THEN [Detached(s) EXCEPT !.records = records] ELSE s

\* mutant: the records of the response are upserted into the current ones
Mut_REPLACE_ALL_RECORDS(s, records) ==
  [s EXCEPT !.records = storeRecords(s.records, records)]

REPLACE_ALL_RECORDS(s, records) == [Detached(s) EXCEPT !.records = records]

\* mutant: SUCCESS and ERROR are accepted only while the status is LOADING
Mut_SET_STATUS(s, status) ==
  IF status \in {STATUS_SUCCESS, STATUS_ERROR} /\ s.status # STATUS_LOADING
  THEN s ELSE [s EXCEPT !.status = status]

SET_STATUS(s, status) == [s EXCEPT !.status = status]

STORE_RECORD(s, newRecord) ==
  [s EXCEPT !.records = storeRecord(s.records, newRecord)]

\* mutant: the response's records take the place of the current ones
Mut_STORE_RECORDS(s, newRecords) ==
  [s EXCEPT !.records = newRecords]

STORE_RECORDS(s, newRecords) ==
  [s EXCEPT !.records = storeRecords(s.records, newRecords)]

STORE_PAGE(s, records) == [s EXCEPT !.page = MapIds(records)]

\* mutant: a response without meta keeps the meta of the response before
Mut_STORE_META(s, meta) ==
  [s EXCEPT !.lastMeta = IF meta = JUndef THEN @ ELSE meta]

STORE_META(s, meta) == [s EXCEPT !.lastMeta = meta]

STORE_ERROR(s, error) == [s EXCEPT !.error = error]

STORE_RELATED(resourceName, s, relatedIds, params) ==
  LET relationshipIndex == getRelationshipIndex(resourceName, params)
      hit == {e \in Range(s.related) : matches(relationshipIndex, e)}
      i == FirstIn(s.related, hit)
  IN IF i # 0
     THEN [s EXCEPT !.related[i].relatedIds = relatedIds]
     ELSE [s EXCEPT !.related =
             Append(@, ObjectAssign([relatedIds |-> relatedIds], relationshipIndex))]

\* commit('REMOVE_RELATED', ...): the module defines no mutation of that name;
\* the store reports an unknown mutation type and leaves the state as it is
REMOVE_RELATED(resourceName, s, relatedIds, params) == s

\* mutant: every response adds an entry of its own
Mut_STORE_FILTERED(s, matchedIds, params) ==
  [s EXCEPT !.filtered =
     Append(@, ObjectAssign([matchedIds |-> matchedIds], params))]

STORE_FILTERED(s, matchedIds, params) ==
  LET hit == {e \in Range(s.filtered) : matches(params, e)}
      i == FirstIn(s.filtered, hit)
  IN IF i # 0
     THEN [s EXCEPT !.filtered[i].matchedIds = matchedIds]
     ELSE [s EXCEPT !.filtered =
             Append(@, ObjectAssign([matchedIds |-> matchedIds], params))]

STORE_LAST_CREATED(s, record) == [s EXCEPT !.lastCreated = record]

\* mutant: the records are compared as wholes, not by id
Mut_REMOVE_RECORD(s, record) ==
  [s EXCEPT !.records = SelectSeq(s.records, LAMBDA r : r # record)]

REMOVE_RECORD(s, record) ==
  LET t == IF s.lastCreated.tag = "ref" /\ s.lastCreated.id = record.id
           THEN Detached(s) ELSE s
  IN [t EXCEPT !.records = SelectSeq(@, LAMBDA r : r.id # record.id)]

\* mutant: a response without links keeps the links of the previous page
Mut_SET_LINKS(s, links) ==
  [s EXCEPT !.links = IF Falsy(links) THEN @ ELSE links.val]

\* links: an object with keys among next, prev; `links || {}`
SET_LINKS(s, links) ==
  [s EXCEPT !.links = IF Falsy(links) THEN EmptyObject ELSE links.val]

\* mutant: the records and the status are reset, the indexes are not
Mut_RESET_STATE(s) ==
  [s EXCEPT !.records = <<>>, !.status = STATUS_INITIAL, !.error = JNull]

RESET_STATE(s) == ObjectAssign(s, initialState)

-----------------------------------------------------------------------------
(* Getters *)

isLoading(s) == s.status = STATUS_LOADING
isError(s) == s.status = STATUS_ERROR
getError(s) == s.error
\* !!state.links.prev, !!state.links.next: a missing link and an empty one
\* are both false
hasPrevious(s) == "prev" \in DOMAIN s.links /\ s.links.prev # ""
hasNext(s) == "next" \in DOMAIN s.links /\ s.links.next # ""
all(s) == s.records
\* state.lastCreated: null, the object create was answered with, or the
\* object it shares with state.records
lastCreated(s) ==
  IF s.lastCreated.tag = "ref"
  THEN LET hit == {r \in Range(s.records) : r.id = s.lastCreated.id}
           i == FirstIn(s.records, hit)
       IN IF i # 0 THEN JObj(s.records[i]) ELSE JUndef
  ELSE s.lastCreated
lastMeta(s) == s.lastMeta

\* records.find(r => r.id === id), undefined when there is none
findById(records, id) ==
  LET hit == {r \in Range(records) : r.id = id}
      i == FirstIn(records, hit)
  IN IF i # 0 THEN records[i] ELSE JUndef

byId(s, id) ==
  LET hit == {r \in Range(s.records) : LooseEq(r.id, id)}
      i == FirstIn(s.records, hit)
  IN IF i # 0 THEN s.records[i] ELSE JUndef

RECURSIVE mapFind(_, _)
\* ids.map(id => records.find(record => record.id === id))
mapFind(ids, records) ==
  IF ids = <<>> THEN <<>>
  ELSE <<findById(records, Head(ids))>> \o mapFind(Tail(ids), records)

page(s) == mapFind(s.page, s.records)

\* where: the ids of the entry found for params, none when there is no entry
whereIds(s, params) ==
  LET hit == {e \in Range(s.filtered) : matches(params, e)}
      i == FirstIn(s.filtered, hit)
  IN IF i = 0 THEN <<>> ELSE s.filtered[i].matchedIds

\* mutant: the matched records come in the order of the record store
Mut_where(s, params) ==
  SelectSeq(s.records, LAMBDA r : r.id \in Range(whereIds(s, params)))

where(s, params) == mapFind(whereIds(s, params), s.records)

\* mutant: a to-many relationship is resolved in the order of the record store
Mut_relatedStoreOrder(resourceName, s, params) ==
  LET relationshipIndex == getRelationshipIndex(resourceName, params)
      hit == {e \in Range(s.related) : matches(relationshipIndex, e)}
      i == FirstIn(s.related, hit)
  IN IF i = 0 THEN JNull
     ELSE LET ids == s.related[i].relatedIds
          IN IF IsArray(ids)
             THEN JArr(SelectSeq(s.records,
                                 LAMBDA r : \E j \in DOMAIN ids.val :
                                               LooseEq(r.id, ids.val[j])))
             ELSE IF ids.tag = "str"
                  THEN (LET r == findById(s.records, ids.val)
                        IN IF r = JUndef THEN JUndef ELSE JObj(r))
                  ELSE JUndef

\* mutant: no entry reads as an empty list
Mut_related(resourceName, s, params) ==
  LET relationshipIndex == getRelationshipIndex(resourceName, params)
      hit == {e \in Range(s.related) : matches(relationshipIndex, e)}
      i == FirstIn(s.related, hit)
  IN IF i = 0 THEN JArr(<<>>)
     ELSE LET ids == s.related[i].relatedIds
          IN IF IsArray(ids)
             THEN JArr(SelectSeq(mapFind(ids.val, s.records),
                                 LAMBDA r : r # JUndef))
             ELSE IF ids.tag = "str"
                  THEN (LET r == findById(s.records, ids.val)
                        IN IF r = JUndef THEN JUndef ELSE JObj(r))
                  ELSE JUndef

\* null when there is no entry; an array of records for a list of ids; else
\* the record found for the single id (undefined when none)
related(resourceName, s, params) ==
  LET relationshipIndex == getRelationshipIndex(resourceName, params)
      hit == {e \in Range(s.related) : matches(relationshipIndex, e)}
      i == FirstIn(s.related, hit)
  IN IF i = 0 THEN JNull
     ELSE LET ids == s.related[i].relatedIds
          IN IF IsArray(ids)
             THEN JArr(SelectSeq(mapFind(ids.val, s.records),
                                 LAMBDA r : r # JUndef))
             ELSE IF ids.tag = "str"
                  THEN (LET r == findById(s.records, ids.val)
                        IN IF r = JUndef THEN JUndef ELSE JObj(r))
                  ELSE JUndef

-----------------------------------------------------------------------------
(* Actions of the module, as functions of the root state (resource name |-> *)
(* module state).  dispatch(`${type}/...`, ..., {root: true}) reaches the   *)
(* module registered under that name; Vuex reports an unknown action type   *)
(* and changes nothing.                                                     *)

\* mutant: the included record is stored by the other module
Mut_dispatchStoreRecord(root, type, record) ==
  IF type \in Names
  THEN [root EXCEPT ![CHOOSE n \in Names : n # type] = STORE_RECORD(@, record)]
  ELSE root

\* commit(mutation) inside module `name`
dispatchStoreRecord(root, type, record) ==
  IF type \in Names THEN [root EXCEPT ![type] = STORE_RECORD(@, record)]
  ELSE root

\* type: what getRelationshipType returned (a string, null or undefined)
dispatchStoreRelated(root, type, relatedIds, params) ==
  IF type.tag = "str" /\ type.val \in Names
  THEN [root EXCEPT ![type.val] = STORE_RELATED(type.val, @, relatedIds, params)]
  ELSE root

\* Object.keys(relationships), in document order
RelKeys(relationships) ==
  SelectSeq(RelOrder, LAMBDA k : k \in DOMAIN relationships)

RECURSIVE storeIncludedRecords(_, _)
\* result.included.forEach(relatedRecord => dispatch(`${type}/storeRecord`))
storeIncludedRecords(root, included) ==
  IF included = <<>> THEN root
  ELSE storeIncludedRecords(
         dispatchStoreRecord(root, Head(included).type, Head(included)),
         Tail(included))

\* the relatedIds storeIncluded derives from a relationship's data
includedRelatedIds(data) ==
  IF IsArray(data) THEN JArr(MapIds(data.val)) ELSE JStr(data.val.id)

RECURSIVE Mut_storeRelationshipsOf(_, _, _)
\* mutant: a relationship without data is recorded as an empty relationship
Mut_storeRelationshipsOf(root, primaryRecord, keys) ==
  IF keys = <<>> THEN root
  ELSE LET relationshipName == Head(keys)
           relationship == primaryRecord.relationships[relationshipName]
           data == Get(relationship, "data")
           skip == Falsy(data) \/ (IsArray(data) /\ Len(data.val) = 0)
           params == [parent |-> getResourceIdentifier(JObj(primaryRecord)),
                      relationship |-> relationshipName]
           next == IF skip
                   THEN [n \in DOMAIN root |->
                           STORE_RELATED(n, root[n], JArr(<<>>), params)]
                   ELSE dispatchStoreRelated(root, getRelationshipType(relationship),
                                             includedRelatedIds(data), params)
       IN Mut_storeRelationshipsOf(next, primaryRecord, Tail(keys))

RECURSIVE storeRelationshipsOf(_, _, _)
\* Object.keys(primaryRecord.relationships).forEach(...)
storeRelationshipsOf(root, primaryRecord, keys) ==
  IF keys = <<>> THEN root
  ELSE LET relationshipName == Head(keys)
           relationship == primaryRecord.relationships[relationshipName]
           data == Get(relationship, "data")
           skip == Falsy(data) \/ (IsArray(data) /\ Len(data.val) = 0)
           options ==
             [relatedIds |-> includedRelatedIds(data),
              params |-> [parent |-> getResourceIdentifier(JObj(primaryRecord)),
                          relationship |-> relationshipName]]
           next == IF skip THEN root
                   ELSE dispatchStoreRelated(root, getRelationshipType(relationship),
                                             options.relatedIds, options.params)
       IN storeRelationshipsOf(next, primaryRecord, Tail(keys))

RECURSIVE storeAllRelationships(_, _)
\* allRecords.forEach(primaryRecord => ...)
storeAllRelationships(root, allRecords) ==
  IF allRecords = <<>> THEN root
  ELSE LET primaryRecord == Head(allRecords)
           next == IF "relationships" \in DOMAIN primaryRecord
                   THEN storeRelationshipsOf(root, primaryRecord,
                                             RelKeys(primaryRecord.relationships))
                   ELSE root
       IN storeAllRelationships(next, Tail(allRecords))

\* mutant: only the primary records' relationships are recorded
Mut_storeIncluded(root, result) ==
  IF "included" \in DOMAIN result
  THEN LET allRecords ==
             IF IsArray(result.data) THEN result.data.val ELSE <<result.data.val>>
       IN storeAllRelationships(storeIncludedRecords(root, result.included), allRecords)
  ELSE root

\* result: the response, an object with keys among data, included, meta, links
storeIncluded(root, result) ==
  IF "included" \in DOMAIN result
  THEN LET allRecords ==
             result.included \o
               (IF IsArray(result.data) THEN result.data.val ELSE <<result.data.val>>)
       IN storeAllRelationships(storeIncludedRecords(root, result.included), allRecords)
  ELSE root

\* mutant: the error value is stored and the status is left as it was
Mut_handleErrorKeepsStatus(root, name, errorResponse) ==
  [root EXCEPT ![name] = STORE_ERROR(@, errorResponse)]

\* mutant: the error flag is set and the error value is not stored
Mut_handleError(root, name, errorResponse) ==
  [root EXCEPT ![name] = SET_STATUS(@, STATUS_ERROR)]

\* handleError(commit)(errorResponse): the state it leaves; it then throws
\* errorResponse
handleError(root, name, errorResponse) ==
  [root EXCEPT ![name] = STORE_ERROR(SET_STATUS(@, STATUS_ERROR), errorResponse)]

handleErrorThrown(errorResponse) == errorResponse

\* the .then callbacks of the actions
loadAllThen(root, name, result) ==
  storeIncluded(
    [root EXCEPT ![name] =
       STORE_META(REPLACE_ALL_RECORDS(SET_STATUS(@, STATUS_SUCCESS), result.data.val),
                  Get(result, "meta"))],
    result)

loadByIdThen(root, name, results) ==
  storeIncluded(
    [root EXCEPT ![name] =
       STORE_META(STORE_RECORD(SET_STATUS(@, STATUS_SUCCESS), results.data.val),
                  Get(results, "meta"))],
    results)

loadWhereThen(root, name, params, results) ==
  LET found == results.data.val
      matchedIds == MapIds(found)
  IN storeIncluded(
       [root EXCEPT ![name] =
          STORE_META(
            STORE_FILTERED(STORE_RECORDS(SET_STATUS(@, STATUS_SUCCESS), found),
                           matchedIds, params),
            Get(results, "meta"))],
       results)

loadPageThen(root, name, response) ==
  storeIncluded(
    [root EXCEPT ![name] =
       SET_LINKS(
         STORE_META(
           STORE_PAGE(STORE_RECORDS(SET_STATUS(@, STATUS_SUCCESS), response.data.val),
                      response.data.val),
           Get(response, "meta")),
         Get(response, "links"))],
    response)

\* loadNextPage and loadPreviousPage share their .then callback
loadNextPageThen(root, name, response) ==
  storeIncluded(
    [root EXCEPT ![name] =
       STORE_META(
         SET_LINKS(STORE_PAGE(STORE_RECORDS(@, response.data.val), response.data.val),
                   Get(response, "links")),
         Get(response, "meta"))],
    response)

loadRelatedThen(root, name, params, results) ==
  LET relationship == IF "relationship" \in DOMAIN params
                      THEN params.relationship ELSE name
      paramsToStore == ObjectAssign(params, [relationship |-> relationship])
      relatedRecords == IF IsArray(results.data) THEN results.data.val
                        ELSE <<results.data.val>>
      relatedIds == IF IsArray(results.data) THEN JArr(MapIds(results.data.val))
                    ELSE JStr(results.data.val.id)
  IN storeIncluded(
       [root EXCEPT ![name] =
          STORE_META(
            STORE_RELATED(name,
                          STORE_RECORDS(SET_STATUS(@, STATUS_SUCCESS), relatedRecords),
                          relatedIds, paramsToStore),
            Get(results, "meta"))],
       results)

\* STORE_RECORD pushes result.data itself when no record has its id, and
\* STORE_LAST_CREATED then keeps that same object; when a record has the id,
\* result.data is merged into it and stays an object of its own
createThen(root, name, result) ==
  LET id == result.data.val.id
      pushed == \A r \in Range(root[name].records) : r.id # id
  IN [root EXCEPT ![name] =
        STORE_LAST_CREATED(STORE_RECORD(@, result.data.val),
                           IF pushed THEN JRef(id) ELSE result.data)]

RECURSIVE removeOldRelationships(_, _, _)
\* update: "remove old relationships first"
removeOldRelationships(root, oldRecord, keys) ==
  IF keys = <<>> THEN root
  ELSE LET relationship == Head(keys)
           entity == oldRecord.relationships[relationship]
           paramsToStore == [relationship |-> relationship,
                             parent |-> getResourceIdentifier(JObj(oldRecord))]
       IN removeOldRelationships(
            dispatchStoreRelated(root, getRelationshipType(entity), JNull, paramsToStore),
            oldRecord, Tail(keys))

RECURSIVE setNewRelationships(_, _, _)
\* update: "set new relationships"
setNewRelationships(root, record, keys) ==
  IF keys = <<>> THEN root
  ELSE LET relationship == Head(keys)
           relationshipObject == record.relationships[relationship]
           data == Get(relationshipObject, "data")
           isNonEmptyArray == IsArray(data) /\ Len(data.val) > 0
           isObject == data.tag = "obj"
           paramsToStore == [parent |-> getResourceIdentifier(JObj(record)),
                             relationship |-> relationship]
           relatedIds == IF IsArray(data) THEN JArr(MapIds(data.val))
                         ELSE JStr(data.val.id)
           next == IF isNonEmptyArray \/ isObject
                   THEN dispatchStoreRelated(root, getRelationshipType(relationshipObject),
                                             relatedIds, paramsToStore)
                   ELSE root
       IN setNewRelationships(next, record, Tail(keys))

\* mutant: the record is saved and its new relationships are not stored
Mut_updateThen(root, name, record) ==
  LET oldRecord == byId(root[name], record.id)
      removed == IF oldRecord # JUndef /\ "relationships" \in DOMAIN oldRecord
                 THEN removeOldRelationships(root, oldRecord,
                                             RelKeys(oldRecord.relationships))
                 ELSE root
  IN [removed EXCEPT ![name] = STORE_RECORD(@, record)]

updateThen(root, name, record) ==
  LET oldRecord == byId(root[name], record.id)
      removed == IF oldRecord # JUndef /\ "relationships" \in DOMAIN oldRecord
                 THEN removeOldRelationships(root, oldRecord,
                                             RelKeys(oldRecord.relationships))
                 ELSE root
      saved == [removed EXCEPT ![name] = STORE_RECORD(@, record)]
  IN IF "relationships" \in DOMAIN record
     THEN setNewRelationships(saved, record, RelKeys(record.relationships))
     ELSE saved

deleteThen(root, name, record) ==
  [root EXCEPT ![name] = REMOVE_RECORD(@, record)]

\* the actions that only commit
storeRecordAction(root, name, record) ==
  [root EXCEPT ![name] = STORE_RECORD(@, record)]

storeRelatedAction(root, name, relatedIds, params) ==
  [root EXCEPT ![name] = STORE_RELATED(name, @, relatedIds, params)]

removeRecordAction(root, name, record) ==
  [root EXCEPT ![name] = REMOVE_RECORD(@, record)]

resetStateAction(root, name) ==
  [root EXCEPT ![name] = RESET_STATE(@)]

\* setRelated: the client's updateRelationships is called and its promise is
\* dropped; the entry is committed at once.  `relationship` defaults to the
\* resource name
setRelatedAction(root, name, params) ==
  LET data == params.data
      relationship == IF "relationship" \in DOMAIN params
                      THEN params.relationship ELSE name
      relatedIds == IF IsArray(data) THEN JArr(MapIds(data.val))
                    ELSE JStr(data.val.id)
  IN [root EXCEPT ![name] =
        STORE_RELATED(name, @, relatedIds,
                      [parent |-> params.parent, relationship |-> relationship])]

\* removeAllRelated: the client's updateRelationships is called with [] and
\* its promise is dropped; REMOVE_RELATED is committed at once
removeAllRelatedAction(root, name, params) ==
  LET relationship == IF "relationship" \in DOMAIN params
                      THEN params.relationship ELSE name
  IN [root EXCEPT ![name] =
        REMOVE_RELATED(name, @, JArr(<<>>),
                       [parent |-> params.parent, relationship |-> relationship])]

-----------------------------------------------------------------------------
(* The state machine.  An asynchronous action is two steps: its dispatch    *)
(* (everything before the client's promise is awaited) and the processing   *)
(* of the transport's answer (the .then or .catch callback).  Callbacks run *)
(* one at a time; between them other dispatches and answers may occur.      *)

VARIABLES
  state,     \* resource name |-> module state
  inflight,  \* the requests sent and not yet answered
  last,      \* the step taken last: the operation, its input and outcome
  nops       \* the number of operations dispatched so far

vars == <<state, inflight, last, nops>>

\* the actions whose promise chain ends in .catch(handleError(commit))
LoadClass == {"loadAll", "loadById", "loadWhere", "loadPage", "loadRelated"}

\* the actions that commit SET_STATUS LOADING before calling the client
SetsLoading == LoadClass

NoStep == [op |-> "none", name |-> "none", phase |-> "init", rid |-> 0,
           params |-> EmptyObject, result |-> JUndef, error |-> JUndef,
           thrown |-> JUndef, old |-> JUndef]

Init ==
  /\ state = [n \in Names |-> initialState]
  /\ inflight = {}
  /\ last = NoStep
  /\ nops = 0

\* mutant: only loadAll marks the module as loading
Mut_Dispatched(root, name, op) ==
  IF op = "loadAll"
  THEN [root EXCEPT ![name] = SET_STATUS(@, STATUS_LOADING)]
  ELSE root

\* mutant: a load empties the records and the page while it is in flight
Mut_DispatchedClears(root, name, op) ==
  IF op \in SetsLoading
  THEN [root EXCEPT ![name] = [SET_STATUS(@, STATUS_LOADING)
                                 EXCEPT !.records = <<>>, !.page = <<>>]]
  ELSE root

\* what the action does before its client call returns a promise
Dispatched(root, name, op) ==
  IF op \in SetsLoading
  THEN [root EXCEPT ![name] = SET_STATUS(@, STATUS_LOADING)]
  ELSE root

\* the options loadNextPage / loadPreviousPage read from state.links at dispatch
RequestParams(root, name, op, params) ==
  LET url(k) == IF k \in DOMAIN root[name].links
                THEN JStr(root[name].links[k]) ELSE JUndef
  IN IF op = "loadNextPage" THEN [options |-> [url |-> url("next")]]
     ELSE IF op = "loadPreviousPage" THEN [options |-> [url |-> url("prev")]]
     ELSE params

\* mutant: a response that finds the module reset is dropped
Mut_Then(root, req, result) ==
  IF root[req.name].status = STATUS_INITIAL THEN root
  ELSE CASE req.op = "loadAll" -> loadAllThen(root, req.name, result)
         [] req.op = "loadById" -> loadByIdThen(root, req.name, result)
         [] req.op = "loadWhere" -> loadWhereThen(root, req.name, req.params, result)
         [] req.op = "loadPage" -> loadPageThen(root, req.name, result)
         [] req.op \in {"loadNextPage", "loadPreviousPage"} ->
              loadNextPageThen(root, req.name, result)
         [] req.op = "loadRelated" -> loadRelatedThen(root, req.name, req.params, result)
         [] req.op = "create" -> createThen(root, req.name, result)
         [] req.op = "update" -> updateThen(root, req.name, req.params.record)
         [] req.op = "delete" -> deleteThen(root, req.name, req.params.record)

\* the .then callback of request req applied to the transport's response
Then(root, req, result) ==
  CASE req.op = "loadAll" -> loadAllThen(root, req.name, result)
    [] req.op = "loadById" -> loadByIdThen(root, req.name, result)
    [] req.op = "loadWhere" -> loadWhereThen(root, req.name, req.params, result)
    [] req.op = "loadPage" -> loadPageThen(root, req.name, result)
    [] req.op \in {"loadNextPage", "loadPreviousPage"} ->
         loadNextPageThen(root, req.name, result)
    [] req.op = "loadRelated" -> loadRelatedThen(root, req.name, req.params, result)
    [] req.op = "create" -> createThen(root, req.name, result)
    [] req.op = "update" -> updateThen(root, req.name, req.params.record)
    [] req.op = "delete" -> deleteThen(root, req.name, req.params.record)

\* mutant: a failed update leaves the record it was given in the store
Mut_Caught(root, req, error) ==
  IF req.op \in LoadClass THEN handleError(root, req.name, error)
  ELSE IF req.op = "update"
       THEN [root EXCEPT ![req.name] = STORE_RECORD(@, req.params.record)]
       ELSE root

\* mutant: a failed write is recorded like a failed load
Mut_CaughtWrites(root, req, error) == handleError(root, req.name, error)

\* the state after the transport rejected request req with error
Caught(root, req, error) ==
  IF req.op \in LoadClass THEN handleError(root, req.name, error) ELSE root

\* the bounds of a run: operations dispatched, requests unanswered
CanDispatch(maxOps, maxInFlight) ==
  nops < maxOps /\ Cardinality(inflight) < maxInFlight

\* dispatch(`${name}/${op}`, params) up to the client call
Request(name, op, params) ==
  /\ LET req == [rid |-> nops + 1, op |-> op, name |-> name,
                 params |-> RequestParams(state, name, op, params)]
     IN /\ state' = Dispatched(state, name, op)
        /\ inflight' = inflight \cup {req}
        /\ last' = [op |-> op, name |-> name, phase |-> "dispatched",
                    rid |-> req.rid, params |-> req.params,
                    result |-> JUndef, error |-> JUndef, thrown |-> JUndef,
                    old |-> JUndef]
  /\ nops' = nops + 1

\* update's oldRecord: what byId returns for the record when the callback runs
OldRecord(root, req) ==
  IF req.op = "update" THEN byId(root[req.name], req.params.record.id) ELSE JUndef

\* the transport resolves req with result
Resolve(req, result) ==
  /\ req \in inflight
  /\ state' = Then(state, req, result)
  /\ inflight' = inflight \ {req}
  /\ last' = [op |-> req.op, name |-> req.name, phase |-> "resolved",
              rid |-> req.rid, params |-> req.params,
              result |-> result, error |-> JUndef, thrown |-> JUndef,
              old |-> OldRecord(state, req)]
  /\ UNCHANGED nops

\* the transport rejects req with error
Reject(req, error) ==
  /\ req \in inflight
  /\ state' = Caught(state, req, error)
  /\ inflight' = inflight \ {req}
  /\ last' = [op |-> req.op, name |-> req.name, phase |-> "rejected",
              rid |-> req.rid, params |-> req.params, result |-> JUndef,
              error |-> error,
              thrown |-> IF req.op \in LoadClass THEN handleErrorThrown(error)
                         ELSE error,
              old |-> JUndef]
  /\ UNCHANGED nops

\* an action that only commits: it is complete when dispatch returns
Sync(name, op, params, root) ==
  /\ state' = root
  /\ last' = [op |-> op, name |-> name, phase |-> "done", rid |-> nops + 1,
              params |-> params, result |-> JUndef, error |-> JUndef,
              thrown |-> JUndef, old |-> JUndef]
  /\ nops' = nops + 1
  /\ UNCHANGED inflight

-----------------------------------------------------------------------------
(* Specification Spec: one module's loads, filters and status, with the     *)
(* transport answering in any order.  Records carry attributes only;        *)
(* responses may side-load records of the module's own or the other type.   *)

MaxOps == 3
MaxInFlight == 2

Rec(type, id, title) ==
  [type |-> type, id |-> id, attributes |-> [title |-> title]]

Other(name) == CHOOSE n \in Names : n # name

Meta1 == JObj([total |-> "2"])
Meta2 == JObj([total |-> "3"])

\* the errors the transport rejects with
Errors == {JObj([status |-> "500"]), JObj([status |-> "404"])}

\* the primary data the server answers a collection request with
Primaries(name) ==
  { <<>>,
    <<Rec(name, "1", "A")>>,
    <<Rec(name, "1", "A"), Rec(name, "2", "A")>>,
    <<Rec(name, "2", "B"), Rec(name, "1", "B")>> }

\* responses to loadAll: with or without included records
AllDocs(name) ==
  {[data |-> JArr(p)] : p \in Primaries(name)}
  \cup {[data |-> JArr(p), meta |-> Meta1, included |-> inc] :
          p \in Primaries(name) \ {<<>>, <<Rec(name, "1", "A"), Rec(name, "2", "A")>>},
          inc \in {<<Rec(name, "3", "A")>>, <<Rec(Other(name), "1", "A")>>}}

ByIdDocs(name, id) == {[data |-> JObj(Rec(name, id, "B"))]}

WhereDocs(name) ==
  {[data |-> JArr(p)] : p \in Primaries(name) \ {<<>>}}

PageDocs(name) ==
  { [data |-> JArr(<<Rec(name, "1", "A")>>), links |-> JObj([next |-> "page2"])],
    [data |-> JArr(<<Rec(name, "2", "B")>>), meta |-> Meta1] }

RelatedDocs(name) ==
  { [data |-> JArr(<<>>)],
    [data |-> JArr(<<Rec(name, "2", "A"), Rec(name, "1", "A")>>)],
    [data |-> JObj(Rec(name, "2", "B"))] }

\* the modules Spec dispatches on
SpecNames == {"widgets"}

Filter1 == [status |-> "draft"]
\* the parameter sets loadWhere and where are called with
WhereParams ==
  { [filter |-> Filter1],
    [filter |-> Filter1, options |-> [sort |-> "foo"]],
    [filter |-> Filter1, options |-> [sort |-> "bar"]] }

Parent1 == [type |-> "users", id |-> "1", attributes |-> [name |-> "fred"]]
RelatedParams == { [parent |-> JObj(Parent1)] }

loadAll ==
  \E name \in SpecNames :
     /\ CanDispatch(MaxOps, MaxInFlight)
     /\ Request(name, "loadAll", EmptyObject)

loadById ==
  \E name \in SpecNames, id \in {"1", "2"} :
     /\ CanDispatch(MaxOps, MaxInFlight)
     /\ Request(name, "loadById", [id |-> id])

loadWhere ==
  \E name \in SpecNames, params \in WhereParams :
     /\ CanDispatch(MaxOps, MaxInFlight)
     /\ Request(name, "loadWhere", params)

loadPage ==
  \E name \in SpecNames :
     /\ CanDispatch(MaxOps, MaxInFlight)
     /\ Request(name, "loadPage", [options |-> [page |-> "1"]])

loadRelated ==
  \E name \in SpecNames, params \in RelatedParams :
     /\ CanDispatch(MaxOps, MaxInFlight)
     /\ Request(name, "loadRelated", params)

resetState ==
  \E name \in SpecNames :
     /\ nops < MaxOps
     /\ Sync(name, "resetState", EmptyObject, resetStateAction(state, name))

loadAllResolved ==
  \E req \in inflight : /\ req.op = "loadAll"
                        /\ \E result \in AllDocs(req.name) : Resolve(req, result)

loadByIdResolved ==
  \E req \in inflight :
     /\ req.op = "loadById"
     /\ \E result \in ByIdDocs(req.name, req.params.id) : Resolve(req, result)

loadWhereResolved ==
  \E req \in inflight : /\ req.op = "loadWhere"
                        /\ \E result \in WhereDocs(req.name) : Resolve(req, result)

loadPageResolved ==
  \E req \in inflight : /\ req.op = "loadPage"
                        /\ \E result \in PageDocs(req.name) : Resolve(req, result)

loadRelatedResolved ==
  \E req \in inflight : /\ req.op = "loadRelated"
                        /\ \E result \in RelatedDocs(req.name) : Resolve(req, result)

loadRejected ==
  \E req \in inflight, error \in Errors : Reject(req, error)

Next ==
  \/ loadAll \/ loadById \/ loadWhere \/ loadPage \/ loadRelated \/ resetState
  \/ loadAllResolved \/ loadByIdResolved \/ loadWhereResolved
  \/ loadPageResolved \/ loadRelatedResolved \/ loadRejected

Spec == Init /\ [][Next]_vars

-----------------------------------------------------------------------------
(* Specification SpecRel: relationships.  Users have the to-many            *)
(* relationships `widgets` and `purchased` (both of type widgets), widgets  *)
(* the to-one relationship `owner` (of type users).  Responses are compound *)
(* documents; update, delete and storeRelated act on what they cached.      *)

RelMaxOps == 2

Ref(type, id) == [type |-> type, id |-> id]
ToOne(type, id) == [data |-> JObj(Ref(type, id))]
RECURSIVE Refs(_, _)
Refs(type, ids) ==
  IF ids = <<>> THEN <<>> ELSE <<Ref(type, Head(ids))>> \o Refs(type, Tail(ids))
ToMany(type, ids) == [data |-> JArr(Refs(type, ids))]

\* a widget with its owner, a user with its widgets and purchased widgets
Widget(id, title, owner) ==
  [type |-> "widgets", id |-> id, attributes |-> [title |-> title],
   relationships |-> [owner |-> owner]]
User(id, widgets, purchased) ==
  [type |-> "users", id |-> id, attributes |-> [name |-> "fred"],
   relationships |-> [widgets |-> ToMany("widgets", widgets),
                      purchased |-> ToMany("widgets", purchased)]]

\* responses to widgets/loadById: one level of inclusion, two levels (the
\* owner's purchased widget and that widget's owner), a widget whose owner is
\* null (alone and in a compound document), and a sparse record
WidgetDocs(id) ==
  { [data |-> JObj(Widget(id, "A", ToOne("users", "1"))),
     included |-> <<User("1", <<"2", "1">>, <<"1">>), Rec("users", "2", "B")>>],
    [data |-> JObj(Widget(id, "A", ToOne("users", "1"))),
     included |-> <<User("1", <<>>, <<"2">>),
                    Widget(IF id = "1" THEN "2" ELSE "1", "B", ToOne("users", "2"))>>],
    [data |-> JObj(Widget(id, "B", [data |-> JNull]))],
    [data |-> JObj(Widget(id, "B", [data |-> JNull])),
     included |-> <<Rec("users", "2", "B")>>],
    [data |-> JObj(Rec("widgets", id, "B"))] }

\* responses to users/loadAll
UserDocs ==
  { [data |-> JArr(<<User("1", <<"2", "1">>, <<"2">>), User("2", <<"1">>, <<>>)>>),
     included |-> <<Widget("1", "A", ToOne("users", "1")),
                    Widget("2", "A", ToOne("users", "2"))>>],
    [data |-> JArr(<<Rec("users", "2", "B"), Rec("users", "1", "B")>>)] }

\* loadRelated: the parameter sets, and the responses to each
RelRelatedParams(name) ==
  IF name = "widgets"
  THEN { [parent |-> JObj(Rec("users", "1", "B"))],
         [parent |-> JObj(Ref("users", "1")), relationship |-> "purchased"] }
  ELSE { [parent |-> JObj(Ref("widgets", "1")), relationship |-> "owner"] }

RelRelatedDocs(name) ==
  IF name = "widgets"
  THEN { [data |-> JArr(<<Rec("widgets", "2", "A"), Rec("widgets", "1", "A")>>)],
         [data |-> JArr(<<Rec("widgets", "1", "B")>>)],
         [data |-> JArr(<<>>)] }
  ELSE { [data |-> JObj(Rec("users", "1", "A"))],
         [data |-> JObj(User("2", <<"2">>, <<>>)),
          included |-> <<Rec("widgets", "2", "A")>>] }

\* the records update is called with
UpdateRecords(name) ==
  IF name = "widgets"
  THEN { Widget("1", "B", ToOne("users", "2")),
         Widget("1", "B", [data |-> JNull]),
         Rec("widgets", "1", "B") }
  ELSE { User("1", <<"1", "2">>, <<"2">>),
         User("1", <<"1">>, <<>>),
         [type |-> "users", id |-> "1",
          relationships |-> [widgets |-> ToMany("widgets", <<>>)]] }

\* what storeRelated is dispatched with on widgets
StoreRelatedInputs ==
  { [relatedIds |-> ids, params |-> [parent |-> JObj(par), relationship |-> rel]] :
      ids \in {JArr(<<"1">>), JArr(<<"2", "1">>)},
      par \in {Rec("users", "1", "B"), Ref("users", "1")},
      rel \in {"widgets", "purchased"} }

relLoadById ==
  \E id \in {"1", "2"} :
     /\ CanDispatch(RelMaxOps, MaxInFlight)
     /\ Request("widgets", "loadById", [id |-> id])

relLoadAll ==
  /\ CanDispatch(RelMaxOps, MaxInFlight)
  /\ Request("users", "loadAll", EmptyObject)

relLoadRelated ==
  \E name \in Names : \E params \in RelRelatedParams(name) :
     /\ CanDispatch(RelMaxOps, MaxInFlight)
     /\ Request(name, "loadRelated", params)

relUpdate ==
  \E name \in Names : \E record \in UpdateRecords(name) :
     /\ CanDispatch(RelMaxOps, MaxInFlight)
     /\ Request(name, "update", [record |-> record])

relDelete ==
  \E id \in {"1", "2"} :
     /\ CanDispatch(RelMaxOps, MaxInFlight)
     /\ Request("widgets", "delete", [record |-> Ref("widgets", id)])

relStoreRelated ==
  \E in \in StoreRelatedInputs :
     /\ nops < RelMaxOps
     /\ Sync("widgets", "storeRelated", in,
             storeRelatedAction(state, "widgets", in.relatedIds, in.params))

relLoadByIdResolved ==
  \E req \in inflight :
     /\ req.op = "loadById"
     /\ \E result \in WidgetDocs(req.params.id) : Resolve(req, result)

relLoadAllResolved ==
  \E req \in inflight : /\ req.op = "loadAll"
                        /\ \E result \in UserDocs : Resolve(req, result)

relLoadRelatedResolved ==
  \E req \in inflight :
     /\ req.op = "loadRelated"
     /\ \E result \in RelRelatedDocs(req.name) : Resolve(req, result)

\* the server's echo of the record; the callbacks of update and delete do not
\* read the response
relWriteResolved ==
  \E req \in inflight :
     /\ req.op \in {"update", "delete"}
     /\ Resolve(req, [data |-> JObj(Rec(req.name, req.params.record.id, "echo"))])

relRejected ==
  \E req \in inflight : Reject(req, JObj([status |-> "500"]))

NextRel ==
  \/ relLoadById \/ relLoadAll \/ relLoadRelated \/ relUpdate \/ relDelete
  \/ relStoreRelated
  \/ relLoadByIdResolved \/ relLoadAllResolved \/ relLoadRelatedResolved
  \/ relWriteResolved \/ relRejected

SpecRel == Init /\ [][NextRel]_vars

-----------------------------------------------------------------------------
(* Specification SpecStore: the record store of one module under every      *)
(* operation that writes it, pages and their links included.  Records       *)
(* differ in their top-level keys and in the keys of their attributes;      *)
(* responses may include records of either type.                            *)

StoreMaxOps == 2

\* three versions of widget id: two attributes; one attribute; no
\* attributes and a links member
RecA(id) ==
  [type |-> "widgets", id |-> id, attributes |-> [title |-> "A", color |-> "red"]]
RecB(id) ==
  [type |-> "widgets", id |-> id, attributes |-> [title |-> "B"]]
RecL(id) ==
  [type |-> "widgets", id |-> id, links |-> [self |-> "/widgets"]]

\* what a response includes: a record of the other type and one of the
\* module's own
Included1 == <<Rec("users", "1", "A"), RecB("2")>>

\* responses to loadAll; the last names widget 1 twice
StoreAllDocs ==
  { [data |-> JArr(<<RecA("1"), RecA("2")>>)],
    [data |-> JArr(<<RecB("2")>>), meta |-> Meta2,
     included |-> <<User("1", <<"2", "1">>, <<"1">>)>>],
    [data |-> JArr(<<RecA("1"), RecB("1")>>)] }

StoreByIdDocs(id) ==
  { [data |-> JObj(RecB(id))],
    [data |-> JObj(Widget(id, "A", ToOne("users", "1")))],
    [data |-> JObj(RecL(id)), meta |-> Meta2, included |-> Included1] }

StoreWhereDocs ==
  { [data |-> JArr(<<RecB("2"), RecL("1")>>)],
    [data |-> JArr(<<RecA("3")>>), meta |-> Meta2, included |-> Included1] }

\* responses to loadPage, loadNextPage and loadPreviousPage
StorePageDocs ==
  { [data |-> JArr(<<RecA("1"), RecA("2")>>),
     links |-> JObj([next |-> "page2"])],
    [data |-> JArr(<<RecB("3"), RecL("1")>>),
     links |-> JObj([prev |-> "page1", next |-> ""]),
     meta |-> Meta1, included |-> Included1],
    [data |-> JArr(<<RecB("2")>>)] }

StoreRelatedDocs ==
  { [data |-> JArr(<<RecB("1"), RecA("3")>>)],
    [data |-> JObj(RecL("2")), meta |-> Meta2,
     included |-> <<Rec("users", "1", "A")>>] }

\* the transport's answer to create: the record with the id the server gave
StoreCreateDocs == { [data |-> JObj(RecB("3"))], [data |-> JObj(RecL("1"))] }

\* the records update is called with
StoreUpdateRecords == { RecB("1"), RecL("1") }

stLoadAll ==
  /\ CanDispatch(StoreMaxOps, MaxInFlight)
  /\ Request("widgets", "loadAll", EmptyObject)

stLoadById ==
  /\ CanDispatch(StoreMaxOps, MaxInFlight)
  /\ Request("widgets", "loadById", [id |-> "1"])

stLoadWhere ==
  /\ CanDispatch(StoreMaxOps, MaxInFlight)
  /\ Request("widgets", "loadWhere", [filter |-> Filter1])

stLoadPage ==
  /\ CanDispatch(StoreMaxOps, MaxInFlight)
  /\ Request("widgets", "loadPage", [options |-> [page |-> "1"]])

stLoadNextPage ==
  /\ CanDispatch(StoreMaxOps, MaxInFlight)
  /\ Request("widgets", "loadNextPage", EmptyObject)

stLoadPreviousPage ==
  /\ CanDispatch(StoreMaxOps, MaxInFlight)
  /\ Request("widgets", "loadPreviousPage", EmptyObject)

stLoadRelated ==
  /\ CanDispatch(StoreMaxOps, MaxInFlight)
  /\ Request("widgets", "loadRelated", [parent |-> JObj(Parent1)])

stCreate ==
  /\ CanDispatch(StoreMaxOps, MaxInFlight)
  /\ Request("widgets", "create", [recordData |-> [type |-> "widgets"]])

\* create on the other module, answered with user 1
stCreateUser ==
  /\ CanDispatch(StoreMaxOps, MaxInFlight)
  /\ Request("users", "create", [recordData |-> [type |-> "users"]])

stUpdate ==
  \E record \in StoreUpdateRecords :
     /\ CanDispatch(StoreMaxOps, MaxInFlight)
     /\ Request("widgets", "update", [record |-> record])

stDelete ==
  \E record \in { RecA("1"), [type |-> "widgets", id |-> "2"] } :
     /\ CanDispatch(StoreMaxOps, MaxInFlight)
     /\ Request("widgets", "delete", [record |-> record])

stStoreRecord ==
  \E record \in { RecL("1"), RecA("2") } :
     /\ nops < StoreMaxOps
     /\ Sync("widgets", "storeRecord", [record |-> record],
             storeRecordAction(state, "widgets", record))

\* setRelated on widgets: a list for the default relationship, one widget
\* for `purchased`
stSetRelated ==
  \E params \in
       { [parent |-> JObj(Parent1),
          data |-> JArr(<<Ref("widgets", "1"), Ref("widgets", "3")>>)],
         [parent |-> JObj(Parent1), relationship |-> "purchased",
          data |-> JObj(Ref("widgets", "2"))] } :
     /\ nops < StoreMaxOps
     /\ Sync("widgets", "setRelated", params,
             setRelatedAction(state, "widgets", params))

stRemoveAllRelated ==
  \E params \in { [parent |-> JObj(Parent1)],
                   [parent |-> JObj(Parent1), relationship |-> "purchased"] } :
     /\ nops < StoreMaxOps
     /\ Sync("widgets", "removeAllRelated", params,
             removeAllRelatedAction(state, "widgets", params))

stResetState ==
  /\ nops < StoreMaxOps
  /\ Sync("widgets", "resetState", EmptyObject, resetStateAction(state, "widgets"))

\* the responses the transport may give to request req
StoreDocs(req) ==
  CASE req.op = "loadAll" -> StoreAllDocs
    [] req.op = "loadById" -> StoreByIdDocs(req.params.id)
    [] req.op = "loadWhere" -> StoreWhereDocs
    [] req.op \in {"loadPage", "loadNextPage", "loadPreviousPage"} -> StorePageDocs
    [] req.op = "loadRelated" -> StoreRelatedDocs
    [] req.op = "create" ->
         IF req.name = "users" THEN {[data |-> JObj(Rec("users", "1", "B"))]}
         ELSE StoreCreateDocs
    [] req.op \in {"update", "delete"} -> {[data |-> JObj(EmptyObject)]}

stResolved ==
  \E req \in inflight : \E result \in StoreDocs(req) : Resolve(req, result)

stRejected ==
  \E req \in inflight : Reject(req, JObj([status |-> "500"]))

NextStore ==
  \/ stLoadAll \/ stLoadById \/ stLoadWhere \/ stLoadPage \/ stLoadNextPage
  \/ stLoadPreviousPage \/ stLoadRelated \/ stCreate \/ stUpdate \/ stDelete
  \/ stCreateUser \/ stStoreRecord \/ stSetRelated \/ stRemoveAllRelated
  \/ stResetState \/ stResolved \/ stRejected

SpecStore == Init /\ [][NextStore]_vars

-----------------------------------------------------------------------------
(* Properties checked under Spec *)

\* the included records of a response that have the module's own type
OwnIncluded(name, result) ==
  IF "included" \in DOMAIN result
  THEN SelectSeq(result.included, LAMBDA r : r.type = name)
  ELSE <<>>

(* C1, as stated: right after a successful loadAll, `all` is exactly the    *)
(* primary records of the response, in response order, and nothing else.   *)
C1_AllIsExactlyPrimary ==
  (last.op = "loadAll" /\ last.phase = "resolved") =>
     all(state[last.name]) = last.result.data.val

(* C1, as amended: right after a successful loadAll (a response in which no *)
(* resource occurs twice), `all` is the primary records of the response in  *)
(* response order followed by the included records of the module's own      *)
(* type in included order; every record cached before that is in neither    *)
(* is evicted and nothing else is added.                                    *)
C1_LoadAllReplaces ==
  (last.op = "loadAll" /\ last.phase = "resolved") =>
     all(state[last.name]) =
       last.result.data.val \o OwnIncluded(last.name, last.result)

\* a loadAll with an included record of its own type has evicted a record
\* that the page index still names
C1_Witness ==
  /\ last.op = "loadAll" /\ last.phase = "resolved"
  /\ OwnIncluded(last.name, last.result) # <<>>
  /\ Len(last.result.data.val) > 0
  /\ \E id \in Range(state[last.name].page) :
        findById(state[last.name].records, id) = JUndef

(* C2: when the transport rejects a loadAll, loadById, loadWhere, loadPage  *)
(* or loadRelated, the returned promise rejects with the same error value, *)
(* status is ERROR (isError true, isLoading false) and `error` returns     *)
(* that error value.                                                        *)
C2_LoadErrorPropagates ==
  (last.phase = "rejected" /\ last.op \in LoadClass) =>
     LET s == state[last.name]
     IN /\ last.thrown = last.error
        /\ s.status = STATUS_ERROR
        /\ isError(s) /\ ~isLoading(s)
        /\ getError(s) = last.error

\* a loadRelated is rejected after an earlier load had succeeded
C2_Witness ==
  /\ last.phase = "rejected" /\ last.op = "loadRelated"
  /\ last.error \in Errors
  /\ state[last.name].records # <<>>

\* the filter index holds an entry recorded for exactly the parameter set q
HasEntryFor(s, q) ==
  \E e \in Range(s.filtered) : [k \in DOMAIN e \ {"matchedIds"} |-> e[k]] = q

(* C6: filter index entries are keyed by the whole parameter set (filter    *)
(* plus options, no options being a parameter set of its own): a           *)
(* successful loadWhere with p makes where(p) the ids of its response and  *)
(* leaves the ids of every other recorded parameter set as they were.      *)
C6_FilterKeyedByWholeParams ==
  [][ (last'.op = "loadWhere" /\ last'.phase = "resolved") =>
        LET n == last'.name
            p == last'.params
        IN /\ whereIds(state'[n], p) = MapIds(last'.result.data.val)
           /\ \A q \in WhereParams \ {p} :
                 HasEntryFor(state[n], q) =>
                    whereIds(state'[n], q) = whereIds(state[n], q) ]_vars

\* the parameter sets and relationship keys the getters are probed with
ProbeParams == WhereParams \cup {[filter |-> [first |-> "time"]]}
ProbeRelated ==
  { [parent |-> JObj(Parent1)],
    [parent |-> JObj(Parent1), relationship |-> "purchased"],
    [parent |-> JObj([type |-> "users", id |-> "2"])] }

\* the relationship index entries of s recorded for the key that q names
EntriesFor(name, s, q) ==
  {e \in Range(s.related) :
     /\ e.parent = JObj([type |-> q.parent.val.type, id |-> q.parent.val.id])
     /\ e.relationship = (IF "relationship" \in DOMAIN q THEN q.relationship
                          ELSE name)}

C10_LoadingUntilOwnResponse ==
  \A req \in inflight :
     req.op \in LoadClass => isLoading(state[req.name])

(* C10, as amended: the dispatch of a load-class operation makes isLoading  *)
(* true, and isLoading then stays true until a load-class response of that *)
(* module (this request's or another outstanding one's) is processed or    *)
(* resetState is dispatched on it.                                          *)
C10_LoadingUntilNextResponse ==
  [][ /\ (last'.phase = "dispatched" /\ last'.op \in LoadClass)
           => isLoading(state'[last'.name])
      /\ \A n \in Names :
           (isLoading(state[n]) /\ ~isLoading(state'[n])) =>
              /\ last'.name = n
              /\ \/ last'.op = "resetState"
                 \/ last'.op \in LoadClass /\ last'.phase \in {"resolved", "rejected"}
    ]_vars

\* a second load is dispatched while a first one is outstanding
C10_Witness ==
  /\ last.phase = "dispatched" /\ last.op = "loadWhere"
  /\ Cardinality(inflight) = 2
  /\ isLoading(state[last.name])

-----------------------------------------------------------------------------
(* Properties checked under SpecRel *)

\* the objects of a response: its primary data and what it includes
DocObjects(result) ==
  (IF IsArray(result.data) THEN Range(result.data.val) ELSE {result.data.val})
  \cup (IF "included" \in DOMAIN result THEN Range(result.included) ELSE {})

\* a relationship's data names at least one resource
NonEmptyData(data) == data.tag = "obj" \/ (IsArray(data) /\ Len(data.val) > 0)
DataType(data) == IF IsArray(data) THEN data.val[1].type ELSE data.val.type
DataIds(data) ==
  IF IsArray(data) THEN JArr([i \in DOMAIN data.val |-> data.val[i].id])
  ELSE JStr(data.val.id)
IdSet(ids) ==
  IF IsArray(ids) THEN Range(ids.val) ELSE IF ids.tag = "str" THEN {ids.val} ELSE {}

\* what a list of ids, or one id, resolves to in a record store: the records
\* in the order of the ids, the ids with no record left out
RecordsFor(records, ids) ==
  IF IsArray(ids)
  THEN LET present == SelectSeq(ids.val,
                                LAMBDA id : \E r \in Range(records) : r.id = id)
       IN JArr([i \in DOMAIN present |->
                  CHOOSE r \in Range(records) : r.id = present[i]])
  ELSE IF \E r \in Range(records) : r.id = ids.val
       THEN JObj(CHOOSE r \in Range(records) : r.id = ids.val)
       ELSE JUndef

\* the ids of the records a `related` result returns
ReturnedIds(res) ==
  IF IsArray(res) THEN {res.val[i].id : i \in DOMAIN res.val}
  ELSE IF res.tag = "obj" THEN {res.val.id} ELSE {}

\* the positions in module n's relationship index recorded for (o, r)
EntryAt(n, o, r) ==
  {i \in DOMAIN state[n].related :
     /\ state[n].related[i].parent = JObj(Ref(o.type, o.id))
     /\ state[n].related[i].relationship = r}

(* C3: after a load whose response is a compound document, every            *)
(* relationship with non-empty data carried by a primary or an included    *)
(* object o is recorded once, in the index of the type its data names,     *)
(* under its declared name and o's identifier, and related for (o, name)   *)
(* on that type returns the records of exactly those ids.                  *)
C3_CompoundRelationshipsRecorded ==
  (/\ last.phase = "resolved"
   /\ last.op \in {"loadAll", "loadById", "loadRelated"}
   /\ "included" \in DOMAIN last.result)
  => \A o \in DocObjects(last.result) :
        "relationships" \in DOMAIN o =>
           \A r \in DOMAIN o.relationships :
              LET data == Get(o.relationships[r], "data")
              IN NonEmptyData(data) =>
                   LET T == DataType(data)
                   IN /\ Cardinality(EntryAt(T, o, r)) = 1
                      /\ \A i \in EntryAt(T, o, r) :
                            state[T].related[i].relatedIds = DataIds(data)
                      /\ related(T, state[T], [parent |-> JObj(o), relationship |-> r])
                           = RecordsFor(state[T].records, DataIds(data))

\* widget 1 came with its owner, the owner's purchased widget 2 and that
\* widget's owner: three levels, each recorded under the type of its data
C3_Witness ==
  /\ last.phase = "resolved" /\ last.op = "loadById"
  /\ "included" \in DOMAIN last.result
  /\ related("users", state["users"],
             [parent |-> JObj(Ref("widgets", "1")), relationship |-> "owner"])
       = JObj(User("1", <<>>, <<"2">>))
  /\ related("widgets", state["widgets"],
             [parent |-> JObj(Ref("users", "1")), relationship |-> "purchased"])
       = JArr(<<Widget("2", "B", ToOne("users", "2"))>>)
  /\ EntryAt("users", Ref("widgets", "2"), "owner") # {}

\* the ids the cached record old named under relationship r
OldIds(old, r) ==
  IF old = JUndef THEN {}
  ELSE IF "relationships" \notin DOMAIN old THEN {}
  ELSE IF r \notin DOMAIN old.relationships THEN {}
  ELSE IF ~NonEmptyData(Get(old.relationships[r], "data")) THEN {}
  ELSE IdSet(DataIds(old.relationships[r].data))

(* C4: after an update whose record gives relationship r non-empty data,    *)
(* related for (record, r) on the type of that data returns the records of *)
(* the new ids, in their order, and none that only the old value named.    *)
C4_UpdateChangesRelationship ==
  (/\ last.phase = "resolved" /\ last.op = "update"
   /\ "relationships" \in DOMAIN last.params.record)
  => LET record == last.params.record
     IN \A r \in DOMAIN record.relationships :
           LET data == Get(record.relationships[r], "data")
           IN NonEmptyData(data) =>
                LET T == DataType(data)
                    res == related(T, state[T],
                                   [parent |-> JObj(record), relationship |-> r])
                IN /\ res = RecordsFor(state[T].records, DataIds(data))
                   /\ ReturnedIds(res) \cap
                        (OldIds(last.old, r) \ IdSet(DataIds(data))) = {}

\* widget 1 was cached with owner 1 and is updated to owner 2
C4_Witness ==
  /\ last.phase = "resolved" /\ last.op = "update" /\ last.name = "widgets"
  /\ OldIds(last.old, "owner") = {"1"}
  /\ last.params.record = Widget("1", "B", ToOne("users", "2"))
  /\ related("users", state["users"],
             [parent |-> JObj(Ref("widgets", "1")), relationship |-> "owner"])
       = JObj(Rec("users", "2", "B"))

\* a `related` result that returns at least one record
ReturnsRecords(res) == ReturnedIds(res) # {}

EntryKey(e) == <<e.parent.val.type, e.parent.val.id, e.relationship>>

\* the full objects a parent may be given as: the records cached in st
FullObjects(st) == UNION {Range(st[n].records) : n \in Names}

(* C7: the relationship index of a module holds at most one entry per       *)
(* (parent type, parent id, relationship name); a step never moves or      *)
(* removes an entry; storeRelated for a key replaces that key's related    *)
(* ids where the entry is, or appends the entry, and leaves every other    *)
(* entry (another name of the same parent included) as it was; a full      *)
(* parent object and its bare identifier read the same entry.              *)
C7_OneEntryPerRelationship ==
  [][ \A n \in Names :
        LET pre == state[n].related
            post == state'[n].related
        IN /\ \A i, j \in DOMAIN post :
                 EntryKey(post[i]) = EntryKey(post[j]) => i = j
           /\ Len(post) >= Len(pre)
           /\ \A i \in DOMAIN pre : EntryKey(post[i]) = EntryKey(pre[i])
           /\ \A e \in Range(post) : \A o \in FullObjects(state') :
                 (o.type = e.parent.val.type /\ o.id = e.parent.val.id) =>
                    related(n, state'[n], [parent |-> JObj(o),
                                           relationship |-> e.relationship])
                      = related(n, state'[n], [parent |-> e.parent,
                                               relationship |-> e.relationship])
           /\ (last'.op = "storeRelated" /\ last'.rid # last.rid /\ last'.name = n) =>
                 LET key == <<last'.params.params.parent.val.type,
                              last'.params.params.parent.val.id,
                              last'.params.params.relationship>>
                 IN /\ \A i \in DOMAIN pre :
                          EntryKey(pre[i]) # key => post[i] = pre[i]
                    /\ \E i \in DOMAIN post :
                          /\ EntryKey(post[i]) = key
                          /\ post[i].relatedIds = last'.params.relatedIds
                          /\ i \in DOMAIN pre \/ (i = Len(pre) + 1 /\ Len(post) = i)
    ]_vars

\* storeRelated, given the full parent object, wrote the first of two entries
\* of the same parent
C7_Witness ==
  LET idx == state["widgets"].related
  IN /\ last.op = "storeRelated" /\ last.phase = "done"
     /\ "attributes" \in DOMAIN last.params.params.parent.val
     /\ Len(idx) >= 2
     /\ EntryKey(idx[1]) = <<"users", "1", last.params.params.relationship>>
     /\ idx[1].relatedIds = last.params.relatedIds
     /\ idx[2].parent = idx[1].parent
     /\ idx[2].relatedIds # idx[1].relatedIds

(* C8: for a recorded relationship, related returns, for a list of ids, the *)
(* records cached under those ids in the order of the list, leaving out    *)
(* the ids with no cached record, and, for a single id, the record cached  *)
(* under it or undefined.                                                   *)
C8_RelatedResolvesIds ==
  \A n \in Names : \A e \in Range(state[n].related) :
     LET res == related(n, state[n],
                        [parent |-> e.parent, relationship |-> e.relationship])
         cached == {r.id : r \in Range(state[n].records)}
     IN /\ IsArray(e.relatedIds) =>
             /\ IsArray(res)
             /\ MapIds(res.val) = SelectSeq(e.relatedIds.val, LAMBDA id : id \in cached)
             /\ Range(res.val) \subseteq Range(state[n].records)
        /\ e.relatedIds.tag = "str" =>
             IF e.relatedIds.val \in cached
             THEN /\ res.tag = "obj" /\ res.val.id = e.relatedIds.val
                  /\ res.val \in Range(state[n].records)
             ELSE res = JUndef

\* widgets 2 and 1 were recorded in that order for user 1 and widget 2 was
\* then deleted
C8_Witness ==
  /\ \E e \in Range(state["widgets"].related) :
        /\ e.relatedIds = JArr(<<"2", "1">>)
        /\ {r.id : r \in Range(state["widgets"].records)} = {"1"}
        /\ Len(related("widgets", state["widgets"],
                       [parent |-> e.parent, relationship |-> e.relationship]).val) = 1
  /\ last.op = "delete" /\ last.phase = "resolved"

-----------------------------------------------------------------------------
(* Properties checked under SpecStore *)

(* C11, as stated: in every reachable state each type's store holds at most *)
(* one record per id, whatever the responses contained.                    *)
C11_OneRecordPerId ==
  \A n \in Names :
     \A i, j \in DOMAIN state[n].records :
        state[n].records[i].id = state[n].records[j].id => i = j

\* the records a step stores into its module one by one, in order: the
\* record given or the primary data, then what the response includes of the
\* module's own type
StoredBy(l) ==
  LET data == IF IsArray(l.result.data) THEN l.result.data.val
              ELSE <<l.result.data.val>>
      own == IF "included" \in DOMAIN l.result
             THEN SelectSeq(l.result.included, LAMBDA o : o.type = l.name)
             ELSE <<>>
  IN IF l.phase = "done" /\ l.op = "storeRecord" THEN <<l.params.record>>
     ELSE IF l.phase # "resolved" THEN <<>>
     ELSE IF l.op = "update" THEN <<l.params.record>>
     ELSE IF l.op = "create" THEN data
     ELSE IF l.op \in {"loadById", "loadWhere", "loadPage", "loadNextPage",
                       "loadPreviousPage", "loadRelated"} THEN data \o own
     ELSE <<>>

\* old with every top-level key of new overwritten
Overwrite(old, new) ==
  [k \in DOMAIN old \cup DOMAIN new |-> IF k \in DOMAIN new THEN new[k] ELSE old[k]]

RECURSIVE OverwriteAll(_, _)
\* old after each record of news that has its id was written over it
OverwriteAll(old, news) ==
  IF news = <<>> THEN old
  ELSE OverwriteAll(IF Head(news).id = old.id THEN Overwrite(old, Head(news)) ELSE old,
                    Tail(news))

\* position i holds the record that reads of its id find: the first of that id
IsFirstOfId(records, i) == \A j \in 1..(i - 1) : records[j].id # records[i].id

(* C12: a step that stores records (storeRecord, loadById, loadWhere,       *)
(* loadPage, loadRelated, create, update) leaves every record already in   *)
(* the store at its position; the record of an id that is stored again     *)
(* becomes the old record with every top-level key of the new one          *)
(* overwritten (attributes as a whole, keys the new one lacks kept); the   *)
(* count grows only by the ids that were not in the store.                 *)
C12_UpsertOverwritesTopLevelKeys ==
  [][ last' # last =>
        LET n == last'.name
            stored == StoredBy(last')
        IN (n \in Names /\ stored # <<>>) =>
             LET pre == state[n].records
                 post == state'[n].records
             IN /\ Len(post) = Len(pre)
                     + Cardinality({r.id : r \in Range(stored)}
                                     \ {r.id : r \in Range(pre)})
                /\ \A i \in DOMAIN pre :
                      post[i] = IF IsFirstOfId(pre, i)
                                THEN OverwriteAll(pre[i], stored) ELSE pre[i]
    ]_vars

\* widget 1, cached with attributes, was stored again without attributes and
\* with links: it is still first and has both
C12_Witness ==
  /\ last.phase \in {"resolved", "done"}
  /\ StoredBy(last) = <<RecL("1")>>
  /\ Len(state["widgets"].records) = 2
  /\ state["widgets"].records[1] =
       [type |-> "widgets", id |-> "1",
        attributes |-> [title |-> "A", color |-> "red"],
        links |-> [self |-> "/widgets"]]

\* the ids of the records module n of st holds
IdsIn(st, n) == {r.id : r \in Range(st[n].records)}

\* the operations whose response only adds to the store
Accumulating == {"loadById", "loadWhere", "loadPage", "loadNextPage",
                 "loadPreviousPage", "loadRelated", "create"}

(* C13: processing the response of a successful loadById, loadWhere,        *)
(* loadPage, loadNextPage, loadPreviousPage, loadRelated or create removes *)
(* no record: every id a store held before is still in it afterwards.      *)
C13_AccumulatingLoadsKeepRecords ==
  [][ (last'.phase = "resolved" /\ last' # last
       /\ last'.op \in Accumulating)
      => \A n \in Names : IdsIn(state, n) \subseteq IdsIn(state', n)
    ]_vars

\* a filtered load that does not mention widget 1 was processed and widget 1
\* is still cached
C13_Witness ==
  /\ last.phase = "resolved" /\ last.op = "loadWhere"
  /\ "1" \notin {r.id : r \in Range(StoredBy(last))}
  /\ "1" \in IdsIn(state, "widgets")
  /\ Len(state["widgets"].records) = 3

\* the operations that resolve the compound document of their response
ResolvesIncluded == LoadClass \cup {"loadNextPage", "loadPreviousPage"}

\* record r carries every member of object o
Carries(r, o) == r.id = o.id /\ \A k \in DOMAIN o : k \in DOMAIN r /\ r[k] = o[k]

(* C14: when the response of a load-class operation is processed, every     *)
(* object it includes is afterwards in `all` of the module of the object's *)
(* own type, with the members the response gave it; a module other than    *)
(* the requesting one changes only by those upserts, and no store holds a  *)
(* record of another type.                                                 *)
C14_IncludedStoredByOwnType ==
  [][ (/\ last'.phase = "resolved" /\ last' # last
       /\ last'.op \in ResolvesIncluded
       /\ "included" \in DOMAIN last'.result)
      => LET inc == last'.result.included
         IN /\ \A o \in Range(inc) :
                  o.type \in Names =>
                     \E r \in Range(all(state'[o.type])) : Carries(r, o)
            /\ \A m \in Names :
                  /\ \A r \in Range(state'[m].records) : r.type = m
                  /\ m # last'.name =>
                       /\ IdsIn(state', m) =
                            IdsIn(state, m) \cup {o.id : o \in {x \in Range(inc) : x.type = m}}
                       /\ \A r \in Range(state[m].records) :
                             (\A o \in Range(inc) : o.type = m => o.id # r.id)
                             => r \in Range(state'[m].records)
    ]_vars

\* a next page came with a user and a widget included: each is in the store
\* of its type
C14_Witness ==
  /\ last.phase = "resolved" /\ last.op = "loadNextPage"
  /\ "included" \in DOMAIN last.result
  /\ Rec("users", "1", "A") \in Range(all(state["users"]))
  /\ \E r \in Range(all(state["widgets"])) : Carries(r, RecB("2"))

-----------------------------------------------------------------------------
(* Further properties checked under SpecRel *)

(* C15, as stated: when a processed response (here: a compound document)    *)
(* carries a to-one relationship r of object o whose data is null, some    *)
(* module's relationship index holds an entry for (o, r) with relatedIds   *)
(* null afterwards, and related for (o, r) returns no record on any        *)
(* module.                                                                  *)
C15_NullToOneRecorded ==
  [][ (/\ last'.phase = "resolved" /\ last' # last
       /\ last'.op \in {"loadAll", "loadById", "loadRelated"}
       /\ "included" \in DOMAIN last'.result)
      => \A o \in DocObjects(last'.result) :
            "relationships" \in DOMAIN o =>
               \A r \in DOMAIN o.relationships :
                  Get(o.relationships[r], "data") = JNull =>
                     /\ \E T \in Names : \E e \in Range(state'[T].related) :
                           /\ e.parent = JObj(Ref(o.type, o.id))
                           /\ e.relationship = r
                           /\ e.relatedIds = JNull
                     /\ \A T \in Names :
                           ~ReturnsRecords(
                              related(T, state'[T],
                                      [parent |-> JObj(o), relationship |-> r]))
    ]_vars

\* the records and the relationship index of every module
CacheOf(st) == [n \in Names |-> [records |-> st[n].records, related |-> st[n].related]]

(* C16: dispatching update changes neither records nor relationship         *)
(* indexes; when the transport succeeds, the record as the caller gave it  *)
(* (whatever the server echoed) is upserted: written over the cached       *)
(* record of its id, or appended; when the transport fails, the error is   *)
(* rethrown to the caller and records and relationship indexes stay as     *)
(* they were.                                                              *)
C16_UpdateWritesOnSuccessOnly ==
  [][ (last'.op = "update" /\ last' # last)
      => LET n == last'.name
             record == last'.params.record
             pre == state[n].records
             post == state'[n].records
         IN /\ last'.phase = "dispatched" => CacheOf(state') = CacheOf(state)
            /\ last'.phase = "rejected" =>
                  /\ CacheOf(state') = CacheOf(state)
                  /\ last'.thrown = last'.error
            /\ last'.phase = "resolved" =>
                  IF record.id \in IdsIn(state, n)
                  THEN /\ Len(post) = Len(pre)
                       /\ \A i \in DOMAIN pre :
                             post[i] = IF IsFirstOfId(pre, i) /\ pre[i].id = record.id
                                       THEN Overwrite(pre[i], record) ELSE pre[i]
                  ELSE post = Append(pre, record)
    ]_vars

\* an update was rejected while its record was cached with a recorded
\* relationship
C16_Witness ==
  /\ last.op = "update" /\ last.phase = "rejected" /\ last.name = "widgets"
  /\ last.thrown = JObj([status |-> "500"])
  /\ "1" \in IdsIn(state, "widgets")
  /\ EntryAt("users", Ref("widgets", "1"), "owner") # {}

-----------------------------------------------------------------------------
(* Further properties checked under SpecStore *)

\* s is t with some elements left out, the others in t's order
RECURSIVE IsSubSeq(_, _)
IsSubSeq(s, t) ==
  IF s = <<>> THEN TRUE
  ELSE IF t = <<>> THEN FALSE
  ELSE IF Head(s) = Head(t) THEN IsSubSeq(Tail(s), Tail(t))
  ELSE IsSubSeq(s, Tail(t))

(* C17: after a successful delete(record) no record of that id is in `all`, *)
(* byId finds none, and the other records are all kept, in their order;    *)
(* when the id was not cached nothing changes; when the transport fails    *)
(* the error is rethrown to the caller and the state is unchanged.         *)
C17_DeleteRemovesById ==
  [][ (last'.op = "delete" /\ last' # last)
      => LET n == last'.name
             id == last'.params.record.id
             pre == all(state[n])
             post == all(state'[n])
         IN /\ last'.phase = "resolved" =>
                  /\ id \notin IdsIn(state', n)
                  /\ byId(state'[n], id) = JUndef
                  /\ IsSubSeq(post, pre)
                  /\ \A r \in Range(pre) : r.id # id => r \in Range(post)
                  /\ Len(post) = Cardinality({i \in DOMAIN pre : pre[i].id # id})
                  /\ id \notin IdsIn(state, n) => state' = state
                  /\ \A m \in Names \ {n} : state'[m] = state[m]
            /\ last'.phase = "rejected" =>
                  /\ state' = state
                  /\ last'.thrown = last'.error
    ]_vars

\* widget 2 was deleted, given as a bare identifier, and widget 1 is still
\* cached
C17_Witness ==
  /\ last.op = "delete" /\ last.phase = "resolved"
  /\ last.params.record = [type |-> "widgets", id |-> "2"]
  /\ IdsIn(state, "widgets") = {"1"}

-----------------------------------------------------------------------------
(* Further properties checked under Spec *)

-----------------------------------------------------------------------------
(* Further properties checked under SpecStore *)

PageOps == {"loadPage", "loadNextPage", "loadPreviousPage"}

\* the response's links object has a usable link under key k
HasLink(response, k) ==
  /\ "links" \in DOMAIN response
  /\ k \in DOMAIN response.links.val
  /\ response.links.val[k] # ""

(* C19: when loadPage, loadNextPage or loadPreviousPage succeeds, `page`   *)
(* is the response's records in the response's order, hasNext and          *)
(* hasPrevious tell whether the response's links hold next and prev, and   *)
(* the page ids and links of the page before are gone (no links in the     *)
(* response: both are false).                                               *)
C19_PageAndLinksReplaced ==
  [][(last' # last /\ last'.op \in PageOps /\ last'.phase = "resolved")
     => LET response == last'.result
            records == response.data.val
            s == state'[last'.name]
        IN /\ s.page = MapIds(records)
           /\ Len(page(s)) = Len(records)
           /\ \A i \in 1..Len(records) :
                /\ page(s)[i] \in Range(all(s))
                /\ Carries(page(s)[i], records[i])
           /\ hasNext(s) <=> HasLink(response, "next")
           /\ hasPrevious(s) <=> HasLink(response, "prev")
           /\ s.links = IF "links" \in DOMAIN response
                        THEN response.links.val ELSE EmptyObject]_vars

\* the next page was asked for through the stored next link and came back
\* with a prev link only: the page and the links are those of the new response
C19_Witness ==
  /\ last.op = "loadNextPage" /\ last.phase = "resolved"
  /\ last.params.options.url = JStr("page2")
  /\ HasLink(last.result, "prev") /\ ~HasLink(last.result, "next")
  /\ hasPrevious(state[last.name]) /\ ~hasNext(state[last.name])
  /\ Len(page(state[last.name])) = 2

NextPrevOps == {"loadNextPage", "loadPreviousPage"}

(* C20: a loadNextPage or loadPreviousPage that succeeds leaves the store  *)
(* as a successful loadPage given the same response would (records, page,  *)
(* links, meta, included records, status SUCCESS); one whose transport     *)
(* fails rejects to the caller with that failure.                           *)
C20_NextPageSameAsLoadPage ==
  [][(last' # last /\ last'.op \in NextPrevOps)
     => /\ last'.phase = "resolved"
           => state' = loadPageThen(state, last'.name, last'.result)
        /\ last'.phase = "rejected"
           => last'.thrown = last'.error /\ last'.error # JUndef]_vars

WriteOps == {"create", "update", "delete"}

(* C21: no step of create, update or delete (dispatch, success or failure) *)
(* changes the status or the stored error of any module, so isLoading and  *)
(* isError keep their values; a failed write shows only as the rejection   *)
(* the caller receives.                                                     *)
C21_WritesLeaveStatusAlone ==
  [][(last' # last /\ last'.op \in WriteOps)
     => /\ \A n \in DOMAIN state :
             /\ state'[n].status = state[n].status
             /\ state'[n].error = state[n].error
             /\ isLoading(state'[n]) = isLoading(state[n])
             /\ isError(state'[n]) = isError(state[n])
        /\ last'.phase = "rejected" => last'.thrown = last'.error]_vars

\* a write was rejected while a load is still in flight: the module is
\* loading, not in error
C21_Witness ==
  /\ last.op \in WriteOps /\ last.phase = "rejected"
  /\ last.thrown = JObj([status |-> "500"])
  /\ isLoading(state[last.name]) /\ ~isError(state[last.name])
  /\ inflight # {}

\* the operations that load from the server
AllLoadOps == LoadClass \cup NextPrevOps

(* C22: once a load has failed, the next load of any kind that succeeds    *)
(* leaves isError false; the stored error changes only when a later load   *)
(* fails (to that failure) or when resetState clears it.                   *)
C22_SuccessfulLoadEndsError ==
  [][(last' # last)
     => /\ (last'.op \in AllLoadOps /\ last'.phase = "resolved")
             => ~isError(state'[last'.name])
        /\ \A n \in DOMAIN state :
             state'[n].error # state[n].error
             => \/ /\ last'.op \in LoadClass /\ last'.phase = "rejected"
                   /\ last'.name = n /\ state'[n].error = last'.error
                \/ /\ last'.op = "resetState" /\ last'.name = n
                   /\ state'[n].error = JNull]_vars

-----------------------------------------------------------------------------
(* Further properties checked under SpecRel *)

\* the parents `related` is probed with: an identifier and a whole record
ProbeParents ==
  { JObj(Ref("users", "1")), JObj(Rec("users", "1", "B")),
    JObj(Ref("users", "2")), JObj(Ref("widgets", "1")) }

(* C23: with `relationship` omitted, `related` of a module reads the entry *)
(* named after the module's resource type, and loadRelated writes that     *)
(* entry: related({parent}) equals related({parent, relationship: name}),  *)
(* a loadRelated without relationship makes it the response's records and  *)
(* leaves the entries the same parent has under other relationship names   *)
(* as they were.                                                            *)
C23_DefaultRelationshipIsResourceName ==
  [][/\ \A n \in Names : \A p \in ProbeParents :
          related(n, state'[n], [parent |-> p])
            = related(n, state'[n], [parent |-> p, relationship |-> n])
     /\ (/\ last' # last
         /\ last'.op = "loadRelated" /\ last'.phase = "resolved"
         /\ "relationship" \notin DOMAIN last'.params)
        => LET n == last'.name
               q == last'.params
               ids == MapIds(last'.result.data.val)
               named == EntriesFor(n, state'[n], [parent |-> q.parent,
                                                   relationship |-> n])
           IN /\ named # {}
              /\ \A e \in named : e.relatedIds = JArr(ids)
              /\ related(n, state'[n], q).tag = "arr"
              /\ MapIds(related(n, state'[n], q).val) = ids
              /\ \A r \in Range(RelOrder) \ {n} :
                   EntriesFor(n, state'[n], [parent |-> q.parent, relationship |-> r])
                     = EntriesFor(n, state[n], [parent |-> q.parent, relationship |-> r])
    ]_vars

\* users/1 has cached `purchased` widgets, and a loadRelated that named no
\* relationship has just stored other widgets for the same parent
C23_Witness ==
  LET s == state["widgets"]
      p == JObj(Ref("users", "1"))
  IN /\ last.op = "loadRelated" /\ last.phase = "resolved"
     /\ last.name = "widgets" /\ "relationship" \notin DOMAIN last.params
     /\ related("widgets", s, [parent |-> p, relationship |-> "purchased"]) # JNull
     /\ related("widgets", s, [parent |-> p])
          # related("widgets", s, [parent |-> p, relationship |-> "purchased"])
     /\ related("widgets", s, [parent |-> p]).val # <<>>

-----------------------------------------------------------------------------
(* Specification SpecIds: callers that pass ids as numbers.  The server's   *)
(* records carry string ids; loadById, delete and removeRecord are called   *)
(* with the id as a string or as a number.                                   *)

IdMaxOps == 3

\* the ids callers pass: strings and the number 1
CallerIds == {"1", "2", "#1"}

IdAllDocs ==
  { [data |-> JArr(<<RecA("1"), RecB("2")>>)],
    [data |-> JArr(<<RecB("2")>>)] }

\* the record the server has under the id, whose id is a string
IdByIdDocs(id) == { [data |-> JObj(RecB(ToStr(id)))] }

idLoadAll ==
  /\ CanDispatch(IdMaxOps, MaxInFlight)
  /\ Request("widgets", "loadAll", EmptyObject)

idLoadById ==
  \E id \in CallerIds :
     /\ CanDispatch(IdMaxOps, MaxInFlight)
     /\ Request("widgets", "loadById", [id |-> id])

idDelete ==
  \E id \in CallerIds :
     /\ CanDispatch(IdMaxOps, MaxInFlight)
     /\ Request("widgets", "delete", [record |-> [id |-> id]])

idRemoveRecord ==
  \E id \in CallerIds :
     /\ nops < IdMaxOps
     /\ Sync("widgets", "removeRecord", [record |-> [id |-> id]],
             removeRecordAction(state, "widgets", [id |-> id]))

idResolved ==
  \E req \in inflight :
     \E result \in (CASE req.op = "loadAll" -> IdAllDocs
                      [] req.op = "loadById" -> IdByIdDocs(req.params.id)
                      [] req.op = "delete" -> {[data |-> JObj(EmptyObject)]}) :
        Resolve(req, result)

idRejected ==
  \E req \in inflight : Reject(req, JObj([status |-> "500"]))

NextIds ==
  \/ idLoadAll \/ idLoadById \/ idDelete \/ idRemoveRecord
  \/ idResolved \/ idRejected

SpecIds == Init /\ [][NextIds]_vars

-----------------------------------------------------------------------------
(* Properties checked under SpecIds *)

(* C24: an id given as a number counts as its string: byId with the number *)
(* returns what byId with the string returns, the record stored under the  *)
(* string, and after a successful delete called with the number no record  *)
(* with the string id is left in the store.                                 *)
C24_NumericIdAsString ==
  [][/\ \A k \in NumberIds :
          /\ byId(state'["widgets"], k) = byId(state'["widgets"], ToStr(k))
          /\ ToStr(k) \in IdsIn(state', "widgets")
             => byId(state'["widgets"], k) # JUndef
                /\ byId(state'["widgets"], k).id = ToStr(k)
     /\ (last' # last /\ last'.op = "delete" /\ last'.phase = "resolved")
        => ToStr(last'.params.record.id) \notin IdsIn(state', last'.name)
    ]_vars

-----------------------------------------------------------------------------
(* Further properties checked under SpecStore *)

(* C25: a successful create stores the record the server returned and      *)
(* makes it lastCreated; lastCreated then stays that record as created     *)
(* through every other operation (updates and deletes of the record        *)
(* included) until a later create succeeds or resetState runs; a failed    *)
(* create changes neither lastCreated nor the store.                        *)
C25_LastCreatedIsSnapshot ==
  [][(last' # last)
     => /\ (last'.op = "create" /\ last'.phase = "resolved")
           => LET s == state'[last'.name]
              IN /\ lastCreated(s) = last'.result.data
                 /\ \E r \in Range(all(s)) : Carries(r, last'.result.data.val)
        /\ (last'.op = "create" /\ last'.phase = "rejected") => state' = state
        /\ ~(last'.op = "create" /\ last'.phase = "resolved")
           => \A n \in DOMAIN state :
                 \/ (last'.op = "resetState" /\ last'.name = n)
                 \/ lastCreated(state'[n]) = lastCreated(state[n])]_vars

(* C26: after each load that succeeds (loadAll, loadById, loadWhere,       *)
(* loadPage, loadNextPage, loadPreviousPage, loadRelated) lastMeta is the  *)
(* `meta` member of that response; steps of create, update and delete,     *)
(* dispatches and failed loads leave lastMeta as it was.                   *)
C26_LastMetaFollowsLoads ==
  [][(last' # last /\ last'.op \in AllLoadOps \cup WriteOps)
     => IF last'.op \in AllLoadOps /\ last'.phase = "resolved"
        THEN /\ lastMeta(state'[last'.name]) = Get(last'.result, "meta")
             /\ \A n \in DOMAIN state \ {last'.name} :
                   lastMeta(state'[n]) = lastMeta(state[n])
        ELSE \A n \in DOMAIN state : lastMeta(state'[n]) = lastMeta(state[n])]_vars

\* the next or previous page came back with meta: lastMeta is that meta
C26_Witness ==
  /\ last.op \in NextPrevOps /\ last.phase = "resolved"
  /\ "meta" \in DOMAIN last.result
  /\ lastMeta(state[last.name]) = Meta1

-----------------------------------------------------------------------------
(* Further properties checked under SpecStore *)

(* C27: `where` lists the matched records in the order of the response     *)
(* that was stored for the parameter set, whatever order the records got   *)
(* into the store in: right after a loadWhere succeeds where(p) is the     *)
(* response's records in the response's order, `where` follows the stored  *)
(* ids position by position, and steps other than a loadWhere response or  *)
(* resetState do not change the ids stored for any parameter set.          *)
C27_WhereKeepsResponseOrder ==
  [][(last' # last)
     => /\ (last'.op = "loadWhere" /\ last'.phase = "resolved")
           => LET got == where(state'[last'.name], last'.params)
                  data == last'.result.data.val
              IN /\ Len(got) = Len(data)
                 /\ \A i \in 1..Len(data) :
                       got[i] # JUndef /\ Carries(got[i], data[i])
        /\ \A n \in DOMAIN state : \A p \in ProbeParams :
              LET got == where(state'[n], p)
                  ids == whereIds(state'[n], p)
              IN /\ Len(got) = Len(ids)
                 /\ \A i \in 1..Len(ids) : got[i] # JUndef => got[i].id = ids[i]
        /\ ~(last'.op = "loadWhere" /\ last'.phase = "resolved")
           /\ last'.op # "resetState"
           => \A n \in DOMAIN state : \A p \in ProbeParams :
                 whereIds(state'[n], p) = whereIds(state[n], p)]_vars

\* widgets 1 and 2 were stored in that order, then a loadWhere was answered
\* with 2 before 1
C27_Witness ==
  /\ last.op = "loadWhere" /\ last.phase = "resolved"
  /\ MapIds(last.result.data.val) = <<"2", "1">>
  /\ MapIds(all(state[last.name])) = <<"1", "2">>
  /\ MapIds(where(state[last.name], last.params)) = <<"2", "1">>

\* records, relationship index, filter index and page of every module
IndexesOf(st) ==
  [n \in DOMAIN st |-> [records |-> st[n].records, related |-> st[n].related,
                        filtered |-> st[n].filtered, page |-> st[n].page]]

(* C28: processing a successful response a second time changes nothing:    *)
(* after storeRecord, or after the response of loadAll, loadById,          *)
(* loadWhere, loadPage or loadRelated was processed (included records or   *)
(* not), processing the same input again leaves records, relationship      *)
(* index, filter index and page of every module as they are.               *)
C28_SecondProcessingChangesNothing ==
  [][(last' # last)
     => /\ (last'.op \in LoadClass /\ last'.phase = "resolved")
           => IndexesOf(Then(state', [op |-> last'.op, name |-> last'.name,
                                      params |-> last'.params], last'.result))
                = IndexesOf(state')
        /\ (last'.op = "storeRecord" /\ last'.phase = "done")
           => IndexesOf(storeRecordAction(state', last'.name, last'.params.record))
                = IndexesOf(state')]_vars

\* a loadAll response with an included user and its relationships was
\* processed: records and relationship index are filled
C28_Witness ==
  /\ last.op = "loadAll" /\ last.phase = "resolved"
  /\ "included" \in DOMAIN last.result
  /\ Len(state["widgets"].related) = 2
  /\ Len(state["widgets"].records) >= 1 /\ Len(state["users"].records) = 1
  /\ state["widgets"].filtered # <<>>

\* the status changes the state machine names, resetState aside
StatusEdges ==
  { <<STATUS_INITIAL, STATUS_LOADING>>, <<STATUS_LOADING, STATUS_SUCCESS>>,
    <<STATUS_LOADING, STATUS_ERROR>>, <<STATUS_SUCCESS, STATUS_LOADING>>,
    <<STATUS_ERROR, STATUS_LOADING>> }

(* C29 as stated: in every run, overlapping requests and a resetState      *)
(* during a request included, a module's status changes only along         *)
(* INITIAL->LOADING, LOADING->SUCCESS, LOADING->ERROR, SUCCESS->LOADING,   *)
(* ERROR->LOADING, or to INITIAL by resetState.                            *)
C29_StatusFollowsStateMachine ==
  [][\A n \in DOMAIN state :
        \/ state'[n].status = state[n].status
        \/ <<state[n].status, state'[n].status>> \in StatusEdges
        \/ /\ last' # last /\ last'.op = "resetState" /\ last'.name = n
           /\ state'[n].status = STATUS_INITIAL]_vars

(* C29: the status of a module is set by four events only, each whatever   *)
(* the status was: the dispatch of loadAll, loadById, loadWhere, loadPage  *)
(* or loadRelated sets LOADING, the success of one sets SUCCESS, the       *)
(* failure of one sets ERROR, resetState sets INITIAL; other modules keep  *)
(* their status.  A response that arrives when no other response and no    *)
(* resetState came since its dispatch finds LOADING.                       *)
C29_StatusSetByEvents ==
  [][(last' # last /\ last'.op \notin NextPrevOps)
     => /\ \A n \in DOMAIN state \ {last'.name} :
              state'[n].status = state[n].status
        /\ state'[last'.name].status =
             IF last'.op = "resetState" THEN STATUS_INITIAL
             ELSE IF last'.op \in LoadClass
                  THEN (CASE last'.phase = "dispatched" -> STATUS_LOADING
                          [] last'.phase = "resolved" -> STATUS_SUCCESS
                          [] last'.phase = "rejected" -> STATUS_ERROR)
                  ELSE state[last'.name].status
        /\ (/\ last'.op \in LoadClass /\ last'.phase \in {"resolved", "rejected"}
            /\ last.rid = last'.rid)
           => state[last'.name].status = STATUS_LOADING]_vars

\* a load has succeeded while another load of the module is still in flight:
\* the response to come will not find LOADING
C29_Witness ==
  /\ last.op \in LoadClass /\ last.phase = "resolved"
  /\ state[last.name].status = STATUS_SUCCESS
  /\ \E req \in inflight : req.op \in LoadClass /\ req.name = last.name

-----------------------------------------------------------------------------
(* Further properties checked under Spec *)

\* the ids a loadRelated response lists: a list for an array, else one id
RelatedIdsOf(result) ==
  IF IsArray(result.data) THEN JArr(MapIds(result.data.val))
  ELSE JStr(result.data.val.id)

\* the step processes a response to `op` right after the response to another
\* request of the same operation and module with different parameters: the
\* two requests were in flight together
BothAnswered(op) ==
  /\ last.op = op /\ last.phase = "resolved"
  /\ last'.op = op /\ last'.phase = "resolved"
  /\ last'.rid # last.rid /\ last'.name = last.name
  /\ last'.params # last.params

(* C30: when two loadWhere calls with different parameter sets, or two     *)
(* loadRelated calls with different (parent, relationship), are in flight  *)
(* together and both succeed, then after the second response where(p)      *)
(* (related(p)) of each of the two holds the ids of its own response.      *)
C30_OwnSlotUnderInterleaving ==
  [][/\ BothAnswered("loadWhere")
        => LET s == state'[last'.name]
           IN /\ whereIds(s, last.params) = MapIds(last.result.data.val)
              /\ whereIds(s, last'.params) = MapIds(last'.result.data.val)
     /\ (/\ BothAnswered("loadRelated")
         /\ getRelationshipIndex(last.name, last.params)
              # getRelationshipIndex(last'.name, last'.params))
        => LET s == state'[last'.name]
               first == EntriesFor(last.name, s, last.params)
               second == EntriesFor(last.name, s, last'.params)
           IN /\ first # {} /\ second # {}
              /\ \A e \in first : e.relatedIds = RelatedIdsOf(last.result)
              /\ \A e \in second : e.relatedIds = RelatedIdsOf(last'.result)
    ]_vars

-----------------------------------------------------------------------------
(* Further properties checked under SpecStore *)

\* the step processes a response to `op` right after the response to another
\* request of the same operation and module: the two were in flight together
AnsweredInTurn(op) ==
  /\ last.op = op /\ last.phase = "resolved"
  /\ last'.op = op /\ last'.phase = "resolved"
  /\ last'.rid # last.rid /\ last'.name = last.name

\* the root state of a store nothing was loaded into
FreshRoot == [n \in DOMAIN state |-> initialState]

(* C31: of two loadAll requests in flight together that both succeed, the  *)
(* response processed last decides `all`, whichever request was dispatched *)
(* first: `all` is what that response alone gives.  Likewise for two       *)
(* loadPage requests: the page ids and the links are those of the response *)
(* processed last.                                                          *)
C31_LastResponseWins ==
  [][/\ AnsweredInTurn("loadAll")
        => all(state'[last'.name])
             = all(loadAllThen(FreshRoot, last'.name, last'.result)[last'.name])
     /\ AnsweredInTurn("loadPage")
        => LET s == state'[last'.name]
               response == last'.result
           IN /\ s.page = MapIds(response.data.val)
              /\ MapIds(page(s)) = MapIds(response.data.val)
              /\ s.links = IF "links" \in DOMAIN response
                           THEN response.links.val ELSE EmptyObject
    ]_vars

\* the loadAll dispatched first was answered last, after the response that
\* included user 1 had been processed: `all` is the first request's response
C31_Witness ==
  /\ last.op = "loadAll" /\ last.phase = "resolved" /\ last.rid = 1
  /\ nops = 2 /\ inflight = {}
  /\ all(state["widgets"]) = <<RecA("1"), RecA("2")>>
  /\ state["users"].records = <<User("1", <<"2", "1">>, <<"1">>)>>

\* the primary records of a response
PrimaryOf(result) ==
  IF IsArray(result.data) THEN result.data.val ELSE <<result.data.val>>

(* C32: requests are not cancelled by resetState: when the response to a   *)
(* load dispatched before a resetState is processed right after it, the    *)
(* module ends as the response would leave a store nothing was loaded      *)
(* into: the response's records are stored and the status is SUCCESS; a    *)
(* failure leaves the initial state with status ERROR and the error.       *)
C32_ResponseAfterResetApplies ==
  [][(/\ last.op = "resetState" /\ last.phase = "done"
      /\ last' # last /\ last'.op \in LoadClass
      /\ last'.name = last.name /\ last'.rid < last.rid)
     => LET n == last'.name
            s == state'[n]
            req == [op |-> last'.op, name |-> n, params |-> last'.params]
        IN /\ last'.phase = "resolved"
              => /\ s.status = STATUS_SUCCESS
                 /\ \A o \in Range(PrimaryOf(last'.result)) : o.id \in IdsIn(state', n)
                 /\ Len(all(s)) >= (IF PrimaryOf(last'.result) = <<>> THEN 0 ELSE 1)
                 /\ s = Then(FreshRoot, req, last'.result)[n]
           /\ last'.phase = "rejected"
              => s = [initialState EXCEPT !.status = STATUS_ERROR,
                                          !.error = last'.error]
    ]_vars

\* the load dispatched first was answered after a second operation had
\* completed, and the store holds its response and nothing else
C32_Witness ==
  /\ last.op = "loadById" /\ last.phase = "resolved" /\ last.rid = 1
  /\ nops = 2 /\ inflight = {}
  /\ state["widgets"] = [initialState EXCEPT !.status = STATUS_SUCCESS,
                                             !.records = <<RecB("1")>>,
                                             !.lastMeta = JUndef]

\* module state s with status and error set aside
CachedPart(s) == [s EXCEPT !.status = STATUS_INITIAL, !.error = JNull]

(* C33: a load writes the cache only when its successful response is       *)
(* processed.  Dispatching loadAll, loadById, loadWhere, loadPage or       *)
(* loadRelated changes the status (to LOADING) and nothing else; a         *)
(* transport failure changes status and error and nothing else; records,   *)
(* relationship index, filter index, page, links, lastMeta and lastCreated *)
(* of every module stay as the last completed write left them.  The        *)
(* dispatch and the failure of loadNextPage and loadPreviousPage leave     *)
(* them alone as well.                                                      *)
C33_LoadsWriteOnSuccessOnly ==
  [][(last' # last /\ last'.op \in AllLoadOps
      /\ last'.phase \in {"dispatched", "rejected"})
     => LET n == last'.name
        IN /\ \A m \in DOMAIN state \ {n} : state'[m] = state[m]
           /\ CachedPart(state'[n]) = CachedPart(state[n])
           /\ (last'.phase = "dispatched" /\ last'.op \in LoadClass)
              => /\ state'[n].status = STATUS_LOADING
                 /\ state'[n].error = state[n].error
           /\ (last'.phase = "rejected" /\ last'.op \in LoadClass)
              => /\ state'[n].status = STATUS_ERROR
                 /\ state'[n].error = last'.error
    ]_vars

\* a load has failed and the records and the page stored by an earlier
\* response are still there
C33_Witness ==
  /\ last.op \in LoadClass /\ last.phase = "rejected"
  /\ isError(state[last.name]) /\ getError(state[last.name]) = last.error
  /\ all(state[last.name]) # <<>> /\ page(state[last.name]) # <<>>
  /\ hasNext(state[last.name])

\* ids is ids2 with some elements left out, order kept
RECURSIVE IsSubSeqOf(_, _)
IsSubSeqOf(ids, ids2) ==
  IF ids = <<>> THEN TRUE
  ELSE IF ids2 = <<>> THEN FALSE
  ELSE IF Head(ids) = Head(ids2) THEN IsSubSeqOf(Tail(ids), Tail(ids2))
  ELSE IsSubSeqOf(ids, Tail(ids2))

\* the objects a step brings that another module may take: the included
\* objects of a response
IncludedOf(l) ==
  IF l.phase = "resolved" /\ l.op \in ResolvesIncluded /\ "included" \in DOMAIN l.result
  THEN Range(l.result.included) ELSE {}

(* C34: an operation on one module changes another module B only by        *)
(* upserting the included records of type B into B's records and by        *)
(* writing B's relationship index: B's filter index, page, links, status,  *)
(* error, lastMeta and lastCreated stay as they were, every record of B    *)
(* stays (updated only when the response includes it), and resetState      *)
(* changes nothing of B.                                                    *)
C34_OtherModulesFrame ==
  [][(last' # last)
     => \A b \in DOMAIN state \ {last'.name} :
          LET pre == state[b]
              post == state'[b]
              inc == {o \in IncludedOf(last') : o.type = b}
          IN /\ post.filtered = pre.filtered /\ post.page = pre.page
             /\ post.links = pre.links /\ post.status = pre.status
             /\ post.error = pre.error
             /\ lastMeta(post) = lastMeta(pre)
             /\ lastCreated(post) = lastCreated(pre)
             /\ IsSubSeqOf(MapIds(pre.records), MapIds(post.records))
             /\ \A i \in DOMAIN pre.records :
                   (\A o \in inc : o.id # pre.records[i].id)
                   => post.records[i] = pre.records[i]
             /\ \A r \in Range(post.records) :
                   r \in Range(pre.records) \/ \E o \in inc : Carries(r, o)
             /\ last'.op = "resetState" => post = pre
    ]_vars

(* C35: the relationships of the primary records of a successful load are  *)
(* recorded in the relationship index whether the response has an          *)
(* `included` member or not: for every relationship r with non-empty data  *)
(* of type T on a primary record, related({parent: record, relationship:   *)
(* r}) of module T is not null afterwards.                                  *)
C35_PrimaryRelationshipsRecorded ==
  [][(last' # last /\ last'.phase = "resolved" /\ last'.op \in ResolvesIncluded)
     => \A o \in Range(PrimaryOf(last'.result)) :
           "relationships" \in DOMAIN o =>
              \A r \in DOMAIN o.relationships :
                 LET data == Get(o.relationships[r], "data")
                     T == getRelationshipType(o.relationships[r])
                 IN (NonEmptyData(data) /\ T.tag = "str" /\ T.val \in Names)
                    => related(T.val, state'[T.val],
                               [parent |-> JObj(o), relationship |-> r]) # JNull
    ]_vars

(* Further properties checked under SpecRel *)

\* relationship data that is missing or is an empty collection
NoData(data) ==
  data = JUndef \/ data = JNull \/ (IsArray(data) /\ Len(data.val) = 0)

\* the (object, relationship) pairs of a response whose data is missing or
\* empty wherever the response carries that relationship of that resource
SkippedIn(result) ==
  { p \in { <<o, r>> : o \in DocObjects(result), r \in Range(RelOrder) } :
      /\ "relationships" \in DOMAIN p[1]
      /\ p[2] \in DOMAIN p[1].relationships
      /\ \A o2 \in DocObjects(result) :
            ( /\ o2.type = p[1].type /\ o2.id = p[1].id
              /\ "relationships" \in DOMAIN o2
              /\ p[2] \in DOMAIN o2.relationships )
            => NoData(Get(o2.relationships[p[2]], "data")) }

\* the key of the relationship index that an (object, relationship) pair names
KeyOf(p) == [parent |-> JObj(p[1]), relationship |-> p[2]]

(* C36: while a compound document is resolved, a relationship whose data   *)
(* is missing or is an empty collection is skipped: in every module the    *)
(* relationship index entries recorded for that (parent, relationship) are *)
(* what they were, and none is created.                                     *)
C36_EmptyRelationshipSkipped ==
  [][(last' # last /\ last'.phase = "resolved" /\ last'.op \in ResolvesIncluded)
     => \A p \in SkippedIn(last'.result) : \A n \in Names :
           EntriesFor(n, state'[n], KeyOf(p)) = EntriesFor(n, state[n], KeyOf(p))
    ]_vars

\* a response whose included user 1 has no widgets was resolved while the
\* widgets recorded for user 1 by an earlier response are still indexed
C36_Witness ==
  /\ last.phase = "resolved" /\ last.op = "loadById"
  /\ "included" \in DOMAIN last.result
  /\ \E p \in SkippedIn(last.result) :
        /\ p[1].type = "users" /\ p[2] = "widgets"
        /\ \E e \in EntriesFor("widgets", state["widgets"], KeyOf(p)) :
              e.relatedIds = JArr(<<"2", "1">>)


(* C37: after a successful update(record) the stored record and the        *)
(* relationship indexes agree: for every relationship r that byId's record *)
(* carries with non-empty data, the index of the data's type holds for     *)
(* (record, r) exactly the ids of that data, also when the updated record  *)
(* has no `relationships` member.                                           *)
C37_UpdateKeepsIndexInStep ==
  [][(last' # last /\ last'.op = "update" /\ last'.phase = "resolved")
     => LET n == last'.name
            stored == byId(state'[n], last'.params.record.id)
        IN (stored # JUndef /\ "relationships" \in DOMAIN stored)
           => \A r \in DOMAIN stored.relationships :
                 LET data == Get(stored.relationships[r], "data")
                 IN (NonEmptyData(data) /\ DataType(data) \in Names)
                    => LET es == EntriesFor(DataType(data), state'[DataType(data)],
                                            [parent |-> JObj(stored),
                                             relationship |-> r])
                       IN /\ es # {}
                          /\ \A e \in es : e.relatedIds = DataIds(data)
    ]_vars


-----------------------------------------------------------------------------
(* Further properties checked under SpecStore *)

(* C38: every element that `where(params)` and `page` return is a record   *)
(* present in `all`: none is undefined, also after a matched record was    *)
(* deleted or was dropped from the store by a later loadAll.               *)
C38_WhereAndPageWithinAll ==
  \A n \in DOMAIN state :
     LET s == state[n]
     IN /\ \A x \in Range(page(s)) : x # JUndef /\ x \in Range(all(s))
        /\ \A q \in ProbeParams :
              \A x \in Range(where(s, q)) : x # JUndef /\ x \in Range(all(s))


\* the load-class requests of module n that are sent and not yet answered
OutstandingLoads(n) == {req \in inflight : req.name = n /\ req.op \in LoadClass}

(* C39: whenever no loadAll, loadById, loadWhere, loadPage or loadRelated  *)
(* request of a type is outstanding, that type's isLoading is false: the   *)
(* status never stays LOADING once the last outstanding load was answered, *)
(* with success or with failure.                                            *)
C39_NotLoadingWhenNoneOutstanding ==
  \A n \in DOMAIN state : OutstandingLoads(n) = {} => ~isLoading(state[n])

\* the first request, a loadAll, failed after a loadWhere dispatched later
\* had been answered, and no load of widgets is outstanding any more
C39_Witness ==
  /\ last.op = "loadAll" /\ last.phase = "rejected"
  /\ last.name = "widgets" /\ last.rid = 1
  /\ state["widgets"].filtered # <<>>
  /\ OutstandingLoads("widgets") = {}


\* a `related` result that holds no record
NoRecords(res) ==
  res = JNull \/ res = JUndef \/ (IsArray(res) /\ res.val = <<>>)

(* C40: after removeAllRelated({parent, relationship}) the module's        *)
(* related({parent, relationship}) returns no related record any more, in  *)
(* the same way as after setRelated it returns the stored records of the   *)
(* ids that setRelated was given.                                           *)
C40_RemoveAllRelatedEmpties ==
  [][(last' # last /\ last'.phase = "done")
     => LET n == last'.name
            q == last'.params
            key == [parent |-> q.parent,
                    relationship |-> IF "relationship" \in DOMAIN q
                                     THEN q.relationship ELSE n]
        IN /\ last'.op = "removeAllRelated"
                => NoRecords(related(n, state'[n], key))
           /\ last'.op = "setRelated"
                => /\ \E e \in EntriesFor(n, state'[n], key) :
                         e.relatedIds = DataIds(q.data)
                   /\ LET res == related(n, state'[n], key)
                      IN IF IsArray(q.data)
                         THEN /\ IsArray(res)
                              /\ MapIds(res.val)
                                   = SelectSeq(MapIds(q.data.val),
                                        LAMBDA id : id \in IdsIn(state', n))
                         ELSE \/ res = JUndef /\ q.data.val.id \notin IdsIn(state', n)
                              \/ res.tag = "obj" /\ res.val.id = q.data.val.id
    ]_vars

====
